---------------------------- MODULE Spec2Model ----------------------------
(***************************************************************************)
(* A model of the AI Development Monitor's TDD evaluation pipeline:        *)
(*   - combine_evaluation_results and evaluate_tdd_results                 *)
(*     (src/src/tdd_evaluator.py),                                         *)
(*   - handle_tdd_request and the global llm_request_lock                  *)
(*     (src/src/tdd_helpers.py),                                           *)
(*   - the tasks running process_client_queue, handle_suggestion and       *)
(*     handle_continue (src/src/mcp_server.py),                            *)
(*   - evaluate_test_quality (src/src/test_quality_metrics.py),            *)
(*   - run_language_specific_tests, parse_test_output and                  *)
(*     simulate_test_execution (src/src/test_execution.py),                *)
(*   - calculate_term_presence (src/src/task_relevance.py),                *)
(*   - the validation of MCPMessage and the body of handle_suggestion      *)
(*     (src/src/mcp_server.py, src/src/monitor_agent.py),                  *)
(*   - create_tdd_test_prompt and cleanup_generated_tests                  *)
(*     (src/src/tdd_helpers.py),                                           *)
(*   - the request queue of a client: websocket_endpoint and               *)
(*     process_client_queue (src/src/mcp_server.py).                       *)
(*                                                                         *)
(* Scores are Python floats in [0,1]; the model keeps them as integers in  *)
(* tenths (7 is 0.7).  On the grid of tenths the binary floating point     *)
(* comparisons of the code agree with decimal arithmetic.  A Python dict   *)
(* is a function whose DOMAIN is the set of keys present; a key whose      *)
(* value would be None is modelled as an absent key, which dict.get(k, d)  *)
(* cannot tell apart when d is None.                                       *)
(***************************************************************************)
EXTENDS Integers, Sequences, FiniteSets, TLC

VARIABLES
    c_pc,       \* combine_evaluation_results: "off" | "call" | "done"
    c_tdd,      \* its argument tdd_evaluation (a dict)
    c_llm,      \* its argument llm_evaluation (a dict)
    c_out,      \* its return value [final_accept, combined] once c_pc = "done"
    e_pc,       \* evaluate_tdd_results: "off" | "call" | "loop" | "score" | "done"
    e_len,      \* len(tdd_tests)
    e_i,        \* number of elements of tdd_tests the for loop has handled
    e_acc,      \* its locals: total_tests, passed_tests, issues_detected,
                \* max_iteration, and the test_code of final_tests[0]
    e_out,      \* its return value, or that it raised, once e_pc = "done"
    e_tests,    \* the elements of tdd_tests the loop has read: of each,
                \*   whether its test_code is non-empty and whether it
                \*   carries an "error"
    agent,      \* tdd_helpers.agent: TRUE when set_agent installed an agent
    t_pc,       \* handle_tdd_request: "off" | "idle" | "start" | "generate"
                \*   | "respond" | "done"
    t_msg,      \* its argument message: [content, metadata]
    t_ws,       \* its argument websocket: [open, sent, responses], the
                \*   responses given to send_text and those it accepted
    t_loc,      \* its locals: language, iteration, max_iterations,
                \*   generated_tests, error_message, and llm_outcome, what
                \*   the call of agent.send_prompt_to_llm did
    t_exc,      \* TRUE when an exception left handle_tdd_request
    s_pc,       \* handle_suggestion's TDD stage: "off" | "loop" | "await"
                \*   | "done"
    s_max_iterations,   \* its local max_iterations
    s_language,         \* its local language
    s_iteration,        \* the loop variable iteration
    s_coerces,          \* whether MCPMessage validation turns a TDD request
                        \* dict into an MCPTDDRequest (depends on pydantic)
    tdd_test_results,   \* its local tdd_test_results
    s_issued,           \* history: the iterations of the requests issued
    tasks,          \* the tasks running process_client_queue: for each its
                    \*   pc ("idle" | "sync_call" | "tdd_wait" | "tdd_call"),
                    \*   the type of the message it handles, the TDD
                    \*   iterations left, and its call
                    \*   in the executor ("none" | "running" | its outcome)
    loop_busy,      \* the task whose direct call of agent.send_prompt_to_llm
                    \*   the event loop's thread is in, or NoTask
    lock_holder,    \* llm_request_lock: the task that holds it, or NoTask
    lock_waiters,   \* llm_request_lock._waiters
    lock_woken,     \* TRUE when release has set the first waiter's future
    wait_order,     \* history: the waiting tasks in the order they began
    q_pc,       \* evaluate_test_quality: "off" | "call" | "readability"
                \*   | "overall" | "done"
    q_code,     \* its argument test_code, as what its regular expressions
                \*   and line scans find in it
    q_task,     \* its argument task_description, as the terms found in it
    q_loc,      \* its locals: the sub-scores computed so far
    q_out,      \* its return value, or that it raised, once q_pc = "done"
    x_pc,       \* run_language_specific_tests: "off" | "call" | "run"
                \*   | "parse" | "simulate" | "done"
    x_in,       \* its inputs: language, iteration, the test code, what
                \*   get_test_command finds and what the subprocess does
    x_out,      \* its return value once x_pc = "done"
    r_pc,       \* calculate_term_presence: "off" | "call" | "done"
    r_terms,    \* its argument terms
    r_text,     \* its argument text
    r_out,      \* its return value, as [matches, total]
    m_pc,       \* MCPMessage(...): "off" | "call" | "done"
    m_in,       \* the keyword arguments context, message_type, content
    m_smart,    \* how the installed pydantic validates a Union field
    m_out,      \* the constructed message, or that validation raised
    h_pc,       \* handle_suggestion: "off" | "call" | "llm" | "tdd"
                \*   | "combine" | "send" | "done"
    h_in,       \* the suggestion message and what each call it makes does
    h_loc,      \* its locals: accept, llm_evaluation, tdd_evaluation,
                \*   final_accept
    h_ws,       \* its argument websocket: the responses given to send_text
    h_exc,      \* TRUE when an exception left handle_suggestion
    g_pc,       \* cleanup_generated_tests: "off" | "call" | "done"
    g_code,     \* its argument test_code, a sequence of tokens
    g_language, \* its argument language
    g_out,      \* its return value, or that it raised, once g_pc = "done"
    client_request_queue,   \* client_request_queues[client_id] of one
                            \*   client: the messages appended and not yet
                            \*   taken, oldest first
    client_processing_flag, \* client_processing_flags[client_id]
    queue_tasks,    \* the process_client_queue tasks created for the
                    \*   client: of each, its position ("none" | "scheduled"
                    \*   | "handling" | "done"), the message whose
                    \*   handler it awaits and, while it awaits one, how
                    \*   the handler before it ended
    w_kind,         \* of each message received so far, what its text is
    w_dequeued,     \* history: the messages taken from the queue, in order
    w_passed        \* history: the messages given to
                    \*   process_single_message, in order

vars_combine == <<c_pc, c_tdd, c_llm, c_out>>
vars_eval == <<e_pc, e_len, e_i, e_acc, e_out, e_tests>>
vars_tdd == <<agent, t_pc, t_msg, t_ws, t_loc, t_exc>>
vars_loop == <<s_pc, s_max_iterations, s_language, s_iteration, s_coerces, tdd_test_results, s_issued>>

vars_srv == <<tasks, loop_busy, lock_holder, lock_waiters, lock_woken, wait_order>>
vars_quality == <<q_pc, q_code, q_task, q_loc, q_out>>
vars_exec == <<x_pc, x_in, x_out>>
vars_relevance == <<r_pc, r_terms, r_text, r_out>>
vars_message == <<m_pc, m_in, m_smart, m_out>>
vars_suggestion == <<h_pc, h_in, h_loc, h_ws, h_exc>>
vars_cleanup == <<g_pc, g_code, g_language, g_out>>
vars_queue == <<client_request_queue, client_processing_flag, queue_tasks, w_kind, w_dequeued, w_passed>>
vars_pipeline == <<vars_combine, vars_eval, vars_tdd, vars_loop, vars_srv>>

vars == <<c_pc, c_tdd, c_llm, c_out, e_pc, e_len, e_i, e_acc, e_out, e_tests,
          agent, t_pc, t_msg, t_ws, t_loc, t_exc,
          s_pc, s_max_iterations, s_language, s_iteration, s_coerces,
          tdd_test_results, s_issued,
          tasks, loop_busy, lock_holder, lock_waiters, lock_woken, wait_order,
          q_pc, q_code, q_task, q_loc, q_out, x_pc, x_in, x_out,
          r_pc, r_terms, r_text, r_out, m_pc, m_in, m_smart, m_out,
          h_pc, h_in, h_loc, h_ws, h_exc, g_pc, g_code, g_language, g_out,
          client_request_queue, client_processing_flag, queue_tasks,
          w_kind, w_dequeued, w_passed>>

\* the variables a part leaves alone
rest_combine == <<vars_eval, vars_tdd, vars_loop, vars_srv, vars_quality, vars_exec, vars_relevance, vars_message, vars_suggestion, vars_cleanup, vars_queue>>
rest_eval == <<vars_combine, vars_tdd, vars_loop, vars_srv, vars_quality, vars_exec, vars_relevance, vars_message, vars_suggestion, vars_cleanup, vars_queue>>
rest_tdd == <<vars_combine, vars_eval, vars_loop, vars_srv, vars_quality, vars_exec, vars_relevance, vars_message, vars_suggestion, vars_cleanup, vars_queue>>
rest_loop == <<vars_combine, vars_eval, vars_srv, vars_quality, vars_exec, vars_relevance, vars_message, vars_suggestion, vars_cleanup, vars_queue>>
rest_srv == <<vars_combine, vars_eval, vars_tdd, vars_loop, vars_quality, vars_exec, vars_relevance, vars_message, vars_suggestion, vars_cleanup, vars_queue>>
rest_quality == <<vars_pipeline, vars_exec, vars_relevance, vars_message, vars_suggestion, vars_cleanup, vars_queue>>
rest_exec == <<vars_pipeline, vars_quality, vars_relevance, vars_message, vars_suggestion, vars_cleanup, vars_queue>>
rest_relevance == <<vars_pipeline, vars_quality, vars_exec, vars_message, vars_suggestion, vars_cleanup, vars_queue>>
rest_message == <<vars_pipeline, vars_quality, vars_exec, vars_relevance, vars_suggestion, vars_cleanup, vars_queue>>
rest_suggestion == <<vars_pipeline, vars_quality, vars_exec, vars_relevance, vars_message, vars_cleanup, vars_queue>>
rest_cleanup == <<vars_pipeline, vars_quality, vars_exec, vars_relevance, vars_message, vars_suggestion, vars_queue>>
rest_queue == <<vars_pipeline, vars_quality, vars_exec, vars_relevance, vars_message, vars_suggestion, vars_cleanup>>

(***************************************************************************)
(* dict.get(key, default)                                                  *)
(***************************************************************************)
Get(d, k, default) == IF k \in DOMAIN d THEN d[k] ELSE default

NoDict == [none |-> TRUE]

(***************************************************************************)
(* Each specification below runs one part of the program; the variables of *)
(* the other parts then stay as these predicates leave them.               *)
(***************************************************************************)
CombineOff ==
    /\ c_pc = "off"
    /\ c_tdd = NoDict
    /\ c_llm = NoDict
    /\ c_out = NoDict

EvalOff ==
    /\ e_pc = "off"
    /\ e_len = 0
    /\ e_i = 0
    /\ e_acc = NoDict
    /\ e_out = NoDict
    /\ e_tests = <<>>

TddOff ==
    /\ agent = FALSE
    /\ t_pc = "off"
    /\ t_msg = NoDict
    /\ t_ws = NoDict
    /\ t_loc = NoDict
    /\ t_exc = FALSE

\* no task: the lock is free, the event loop's thread is not in a call
NoTask == 0

SrvOff ==
    /\ tasks = <<>>
    /\ loop_busy = NoTask
    /\ lock_holder = NoTask
    /\ lock_waiters = <<>>
    /\ lock_woken = FALSE
    /\ wait_order = <<>>

QualityOff ==
    /\ q_pc = "off"
    /\ q_code = NoDict
    /\ q_task = NoDict
    /\ q_loc = NoDict
    /\ q_out = NoDict

ExecOff ==
    /\ x_pc = "off"
    /\ x_in = NoDict
    /\ x_out = NoDict

RelevanceOff ==
    /\ r_pc = "off"
    /\ r_terms = {}
    /\ r_text = <<>>
    /\ r_out = NoDict

MessageOff ==
    /\ m_pc = "off"
    /\ m_in = NoDict
    /\ m_smart = FALSE
    /\ m_out = NoDict

SuggestionOff ==
    /\ h_pc = "off"
    /\ h_in = NoDict
    /\ h_loc = NoDict
    /\ h_ws = <<>>
    /\ h_exc = FALSE

CleanupOff ==
    /\ g_pc = "off"
    /\ g_code = <<>>
    /\ g_language = "python"
    /\ g_out = NoDict

QueueOff ==
    /\ client_request_queue = <<>>
    /\ client_processing_flag = FALSE
    /\ queue_tasks = <<>>
    /\ w_kind = <<>>
    /\ w_dequeued = <<>>
    /\ w_passed = <<>>

LoopOff ==
    /\ s_pc = "off"
    /\ s_max_iterations = 0
    /\ s_language = "python"
    /\ s_iteration = 0
    /\ s_coerces = FALSE
    /\ tdd_test_results = <<>>
    /\ s_issued = <<>>

\* the parts of the pipeline, and the parts beside it, at rest
PipelineOff == CombineOff /\ EvalOff /\ TddOff /\ LoopOff /\ SrvOff

HelpersOff ==
    /\ QualityOff /\ ExecOff /\ RelevanceOff /\ MessageOff /\ SuggestionOff
    /\ CleanupOff /\ QueueOff

---------------------------------------------------------------------------
(***************************************************************************)
(* combine_evaluation_results (tdd_evaluator.py 346-421)                   *)
(***************************************************************************)

\* tdd_evaluator.py 396: the threshold of the risk veto, 0.7, in tenths
RISK_THRESHOLD == 7
\* tdd_evaluator.py 386: the threshold of the weight boost, 0.7, in tenths
BOOST_THRESHOLD == 7
\* tdd_evaluator.py 400: weighted_score >= 0.6, in hundredths
ACCEPT_THRESHOLD == 60

RiskVeto_conjunction(hallucination_risk, recursive_risk) ==
    hallucination_risk > RISK_THRESHOLD /\ recursive_risk > RISK_THRESHOLD

\* line 396: hallucination_risk > 0.7 or recursive_risk > 0.7
RiskVeto(hallucination_risk, recursive_risk) ==
    hallucination_risk > RISK_THRESHOLD \/ recursive_risk > RISK_THRESHOLD

TddWeight_either(test_quality, task_relevance) ==
    IF test_quality > BOOST_THRESHOLD \/ task_relevance > BOOST_THRESHOLD
    THEN 8 ELSE 7

\* lines 378-390: tdd_weight is 0.7, or 0.8 when quality and relevance are
\* both above 0.7; llm_weight is 1 - tdd_weight
TddWeight(test_quality, task_relevance) ==
    IF test_quality > BOOST_THRESHOLD /\ task_relevance > BOOST_THRESHOLD
    THEN 8 ELSE 7

\* the two weights exchanged
WeightedScore_swapped(tdd_score, alignment_score, tdd_weight) ==
    tdd_score * (10 - tdd_weight) + alignment_score * tdd_weight

\* line 393, in hundredths
WeightedScore(tdd_score, alignment_score, tdd_weight) ==
    tdd_score * tdd_weight + alignment_score * (10 - tdd_weight)

FinalAccept_veto_first(tdd_evaluation, llm_evaluation) ==
    LET llm_analysis == Get(llm_evaluation, "analysis", <<>>)
    IN  IF RiskVeto(Get(llm_analysis, "hallucination_risk", 5),
                    Get(llm_analysis, "recursive_risk", 5))
        THEN FALSE
        ELSE IF "accept" \notin DOMAIN tdd_evaluation
             THEN Get(llm_evaluation, "accept", FALSE)
             ELSE WeightedScore(Get(tdd_evaluation, "tdd_score", 5),
                                Get(llm_analysis, "alignment_score", 5),
                                TddWeight(Get(tdd_evaluation, "test_quality", 5),
                                          Get(tdd_evaluation, "task_relevance", 7)))
                      >= ACCEPT_THRESHOLD

\* lines 358-365 and 371-401: the decision
FinalAccept(tdd_evaluation, llm_evaluation) ==
    LET tdd_score          == Get(tdd_evaluation, "tdd_score", 5)
        llm_analysis       == Get(llm_evaluation, "analysis", <<>>)
        llm_accept         == Get(llm_evaluation, "accept", FALSE)
        hallucination_risk == Get(llm_analysis, "hallucination_risk", 5)
        recursive_risk     == Get(llm_analysis, "recursive_risk", 5)
        alignment_score    == Get(llm_analysis, "alignment_score", 5)
        test_quality       == Get(tdd_evaluation, "test_quality", 5)
        task_relevance     == Get(tdd_evaluation, "task_relevance", 7)
        weighted_score     == WeightedScore(tdd_score, alignment_score,
                                  TddWeight(test_quality, task_relevance))
    IN  IF "accept" \notin DOMAIN tdd_evaluation
        THEN llm_accept
        ELSE IF RiskVeto(hallucination_risk, recursive_risk)
             THEN FALSE
             ELSE weighted_score >= ACCEPT_THRESHOLD

\* the two lists the other way round
MergeLists_tdd_first(tdd_evaluation, llm_evaluation, key) ==
    Get(tdd_evaluation, key, <<>>)
        \o Get(Get(llm_evaluation, "analysis", <<>>), key, <<>>)

\* lines 367-369: llm list + tdd list
MergeLists(tdd_evaluation, llm_evaluation, key) ==
    Get(Get(llm_evaluation, "analysis", <<>>), key, <<>>)
        \o Get(tdd_evaluation, key, <<>>)

\* lines 346-421: the returned pair (final_accept, combined_evaluation)
combine_evaluation_results(tdd_evaluation, llm_evaluation) ==
    LET llm_analysis == Get(llm_evaluation, "analysis", <<>>)
        final_accept == FinalAccept(tdd_evaluation, llm_evaluation)
    IN  [final_accept |-> final_accept,
         combined |->
            [accept |-> final_accept,
             analysis |->
                [hallucination_risk |-> Get(llm_analysis, "hallucination_risk", 5),
                 recursive_risk  |-> Get(llm_analysis, "recursive_risk", 5),
                 alignment_score |-> Get(llm_analysis, "alignment_score", 5),
                 tdd_score       |-> Get(tdd_evaluation, "tdd_score", 5),
                 issues_detected |->
                    MergeLists(tdd_evaluation, llm_evaluation, "issues_detected"),
                 recommendations |->
                    MergeLists(tdd_evaluation, llm_evaluation, "recommendations")]]]

(***************************************************************************)
(* The arguments the combiner is applied to.                               *)
(***************************************************************************)
Scores == 0..10
RiskValues == {7, 8}
QualityValues == {7, 8}
RelevanceValues == {8}
IssueLists == {<<>>, <<"a", "b">>, <<"b", "a", "b">>}

\* d extended by key k, for each value in S, or left without the key
WithOptional(D, k, S) ==
    D \cup { [x \in DOMAIN d \cup {k} |-> IF x = k THEN v ELSE d[x]] :
                d \in D, v \in S }

TddEvaluations ==
    LET base == { [tdd_score |-> s, issues_detected |-> <<"t", "b">>,
                   recommendations |-> <<"rt">>] : s \in Scores }
        a == WithOptional(base, "accept", BOOLEAN)
        q == WithOptional(a, "test_quality", QualityValues)
    IN  WithOptional(q, "task_relevance", RelevanceValues)

LlmAnalyses ==
    LET base == { [alignment_score |-> s, issues_detected |-> l,
                   recommendations |-> <<"rl">>] :
                     s \in Scores, l \in IssueLists }
        h == WithOptional(base, "hallucination_risk", RiskValues)
    IN  WithOptional(h, "recursive_risk", RiskValues)

LlmEvaluations ==
    WithOptional({ [analysis |-> a] : a \in LlmAnalyses }, "accept", BOOLEAN)

InitCombine ==
    /\ c_pc = "call"
    /\ c_tdd \in TddEvaluations
    /\ c_llm \in LlmEvaluations
    /\ c_out = NoDict
    /\ EvalOff /\ TddOff /\ LoopOff /\ SrvOff /\ HelpersOff

Combine ==
    /\ c_pc = "call"
    /\ c_out' = combine_evaluation_results(c_tdd, c_llm)
    /\ c_pc' = "done"
    /\ UNCHANGED <<c_tdd, c_llm>>
    /\ UNCHANGED rest_combine

NextCombine == Combine

SpecCombine == InitCombine /\ [][NextCombine]_vars

---------------------------------------------------------------------------
(***************************************************************************)
(* evaluate_tdd_results (tdd_evaluator.py 21-344)                          *)
(*                                                                         *)
(* One element of tdd_tests is what the function reads of it: whether its  *)
(* test_code is empty, whether it carries an "error", the numbers of       *)
(* matches of the regular expressions in the test code with comments       *)
(* stripped (test functions, asserts, fail patterns, error indicators,     *)
(* performance indicators), and what execute_tests does when it is called  *)
(* for it.  The iteration number of the k-th element is k, as              *)
(* handle_suggestion builds the list.  An element that has test code       *)
(* carries no "error" (tdd_helpers.py 133-141); no line of the function    *)
(* reads that key.                                                         *)
(*                                                                         *)
(* tdd_score is kept in thousandths, rounded down; the comparisons with    *)
(* 0.4, 0.6 and 0.7 are made on the exact fraction.                        *)
(***************************************************************************)

\* bound of the inputs: len(tdd_tests) <= MaxTests
MaxTests == 2

Max2(a, b) == IF a >= b THEN a ELSE b
Min2(a, b) == IF a <= b THEN a ELSE b

RECURSIVE Repeat(_, _)
Repeat(x, n) == IF n <= 0 THEN <<>> ELSE <<x>> \o Repeat(x, n - 1)

TestExecutionResult(total, passed, failed, errors, success) ==
    [raised |-> FALSE, total_tests |-> total, passed_tests |-> passed,
     failed_tests |-> failed, errors |-> errors, success |-> success]

\* what execute_tests does: it returns a TestExecutionResult (all passed,
\* some failed, errors reported, no test ran, counts parsed from the output
\* of the runner that do not add up) or it raises
ExecOutcomes ==
    { TestExecutionResult(2, 2, 0, 0, TRUE),
      TestExecutionResult(1, 1, 0, 0, TRUE),
      TestExecutionResult(2, 1, 1, 0, FALSE),
      TestExecutionResult(2, 0, 1, 4, FALSE),
      TestExecutionResult(0, 0, 0, 1, FALSE),
      TestExecutionResult(1, 2, 0, 0, FALSE),
      [raised |-> TRUE] }

NotExecuted == TestExecutionResult(0, 0, 0, 0, FALSE)

\* the elements of tdd_tests, without the outcome of their execution
TestResults ==
    { [test_code |-> TRUE, implementation_code |-> ic, funcs |-> nf,
       asserts |-> na, fails |-> nx, indicators |-> ni, perf |-> np,
       error |-> FALSE] :
         ic \in BOOLEAN, nf \in {0, 1}, na \in {0, 2}, nx \in {0, 1},
         ni \in {0, 2}, np \in {0, 1} }
      \cup
    { [test_code |-> FALSE, implementation_code |-> TRUE, funcs |-> 0,
       asserts |-> 0, fails |-> 0, indicators |-> 0, perf |-> 0,
       error |-> e] : e \in BOOLEAN }

\* lines 46-54: the locals before the loop
\* and lines 62-77: whether a language was detected in suggestion_code
EvalLocals(detected_language) ==
    [total_tests |-> 0, passed_tests |-> 0, issues_detected |-> <<>>,
     max_iteration |-> 0, final_code |-> FALSE,
     detected_language |-> detected_language]

\* lines 118-162: the execution branch of the loop body; returns the
\* updated locals and the test_count the rest of the body uses
ExecuteBranch(acc, t, exec, test_count) ==
    IF t.test_code /\ t.implementation_code /\ acc.detected_language
    THEN IF exec.raised
         THEN \* lines 155-159
              [acc |-> [acc EXCEPT
                          !.issues_detected = @ \o <<"Error executing tests">>,
                          !.total_tests = @ + test_count],
               test_count |-> test_count]
         ELSE IF exec.total_tests > 0
              THEN \* lines 142-154
                   [acc |-> [acc EXCEPT
                       !.total_tests = @ + exec.total_tests,
                       !.passed_tests = @ + exec.passed_tests,
                       !.issues_detected = @
                           \o Repeat("Test error", Min2(3, exec.errors))
                           \o (IF ~exec.success /\ exec.failed_tests > 0
                               THEN <<"Failed tests">> ELSE <<>>)],
                    test_count |-> exec.total_tests]
              ELSE [acc |-> acc, test_count |-> test_count]
    ELSE \* lines 160-162
         [acc |-> [acc EXCEPT !.total_tests = @ + test_count],
          test_count |-> test_count]

\* lines 80-197: one pass of the loop body, for the element t with the
\* iteration number iteration
LoopBody(acc, t, exec, iteration) ==
    LET test_count == Max2(t.funcs, t.asserts)                 \* line 116
        b == ExecuteBranch(acc, t, exec, test_count)
        passed == IF t.fails = 0 /\ b.test_count > 0           \* lines 174-175
                  THEN b.acc.passed_tests + b.test_count
                  ELSE b.acc.passed_tests
        issues == b.acc.issues_detected
                    \o Repeat("Potential issue", t.indicators)  \* lines 183-187
                    \o (IF iteration >= 3                       \* lines 190-197
                        THEN Repeat("Performance concern", t.perf) ELSE <<>>)
    IN  [b.acc EXCEPT
            !.passed_tests = passed,
            !.issues_detected = issues,
            \* line 84 and line 200-202: final_tests[0] is the first element
            \* carrying the largest iteration number
            !.final_code = IF iteration > acc.max_iteration
                           THEN t.test_code ELSE @,
            !.max_iteration = Max2(@, iteration)]

\* lines 37-44: the result for an empty list; accept is None
NoTestsResult ==
    [tdd_score |-> 500,
     issues_detected |-> <<"No TDD tests ran">>,
     recommendations |-> <<"Run TDD tests to verify code quality">>]

\* line 294: tdd_score >= 0.6, in thousandths
TDD_ACCEPT == 600

\* lines 276-283: twice total_tests times the tdd_score in thousandths;
\* task_relevance and quality_score are in tenths
ScoreTimes2Total(total_tests, passed_tests, n_issues, task_relevance, quality_score) ==
    LET base_score == Min2(800 * total_tests, 1000 * passed_tests)
        issue_penalty == Min2(500, n_issues * 100) * total_tests
        test_result_score == Max2(100 * total_tests, base_score - issue_penalty)
    IN  test_result_score
          + 2 * total_tests * (30 * task_relevance + 20 * quality_score)

\* line 294, on the fraction num/den
Accept(num, den) == num >= TDD_ACCEPT * den

\* lines 274-312: the result for a non-empty list, given what
\* assess_task_relevance and evaluate_test_quality returned
ScoredResult(acc, task_relevance, quality_score, recs) ==
    LET den == IF acc.total_tests > 0 THEN 2 * acc.total_tests ELSE 1
        num == IF acc.total_tests > 0
               THEN ScoreTimes2Total(acc.total_tests, acc.passed_tests,
                                     Len(acc.issues_detected),
                                     task_relevance, quality_score)
               ELSE 500                                        \* line 275
        recommendations ==                                     \* lines 286-291
            IF num < 400 * den THEN recs \o <<"Consider revising code">>
            ELSE IF num > 700 * den THEN recs \o <<"Code performs well">>
            ELSE IF recs = <<>> THEN <<"Code has mixed test results">>
            ELSE recs
    IN  [tdd_score |-> num \div den,
         task_relevance |-> task_relevance,
         test_quality |-> quality_score,
         issues_detected |-> acc.issues_detected,
         recommendations |-> recommendations,
         accept |-> Accept(num, den),
         metrics |-> [test_count |-> acc.total_tests,
                      passed_tests |-> acc.passed_tests]]

Raised == [raised |-> TRUE]

\* what assess_task_relevance returns (task_relevance.py 14-71): a value in
\* [0.4, 1.0]
RelevanceResults == {4, 7, 10}
\* what evaluate_test_quality returns as overall_quality, or that it raised
\* (test_quality_metrics.py 132-244, 666-668)
QualityResults == {0, 5, 10}

InitEval ==
    /\ e_pc = "call"
    /\ e_len \in 0..MaxTests
    /\ e_i = 0
    /\ e_acc = NoDict
    /\ e_out = NoDict
    /\ e_tests = <<>>
    /\ CombineOff /\ TddOff /\ LoopOff /\ SrvOff /\ HelpersOff

\* lines 37-44
EvalEmpty ==
    /\ e_pc = "call" /\ e_len = 0
    /\ e_out' = NoTestsResult
    /\ e_pc' = "done"
    /\ UNCHANGED <<e_len, e_i, e_acc, e_tests>>
    /\ UNCHANGED rest_eval

\* lines 46-77
EvalBegin ==
    /\ e_pc = "call" /\ e_len > 0
    /\ \E detected_language \in BOOLEAN :
          e_acc' = EvalLocals(detected_language)
    /\ e_pc' = "loop"
    /\ UNCHANGED <<e_len, e_i, e_out, e_tests>>
    /\ UNCHANGED rest_eval

\* lines 80-197: the loop body for the next element of tdd_tests
EvalIteration ==
    /\ e_pc = "loop" /\ e_i < e_len
    /\ \E t \in TestResults :
          \E exec \in (IF t.test_code /\ t.implementation_code
                             /\ e_acc.detected_language
                        THEN ExecOutcomes ELSE {NotExecuted}) :
             /\ e_acc' = LoopBody(e_acc, t, exec, e_i + 1)
             /\ e_tests' = Append(e_tests, [test_code |-> t.test_code,
                                            error |-> t.error])
    /\ e_i' = e_i + 1
    /\ UNCHANGED <<e_pc, e_len, e_out>>
    /\ UNCHANGED rest_eval

\* lines 199-344: relevance, quality of the final iteration's test code,
\* score and result
EvalScore ==
    /\ e_pc = "loop" /\ e_i = e_len
    /\ \E task_relevance \in RelevanceResults, recs \in {<<>>, <<"r">>} :
          \/ \E q \in QualityResults :
                e_out' = ScoredResult(e_acc, task_relevance,
                            IF e_acc.final_code THEN q ELSE 0, recs)
          \/ \* evaluate_test_quality raises ZeroDivisionError when the most
             \* common indentation of the final test code is 0
             /\ e_acc.final_code
             /\ e_out' = Raised
    /\ e_pc' = "done"
    /\ UNCHANGED <<e_len, e_i, e_acc, e_tests>>
    /\ UNCHANGED rest_eval

NextEval == EvalEmpty \/ EvalBegin \/ EvalIteration \/ EvalScore

SpecEval == InitEval /\ [][NextEval]_vars

---------------------------------------------------------------------------
(***************************************************************************)
(* handle_tdd_request (tdd_helpers.py 48-157)                              *)
(*                                                                         *)
(* A message is its content and the metadata of its context, both dicts.   *)
(* The content carries language and iteration and may carry                *)
(* max_iterations; the metadata may carry max_iterations.  A language of   *)
(* None is the value "None".  The test code is "tests" or empty.           *)
(***************************************************************************)

\* tdd_helpers.py line 32
DEFAULT_MAX_ITERATIONS == 5

\* bound of the inputs: iteration and max_iterations are at most
\* MaxIterations
MaxIterations == 6

With(d, k, v) == [x \in DOMAIN d \cup {k} |-> IF x = k THEN v ELSE d[x]]

\* lines 52-106: the locals before the prompt is built; the iteration is
\* clamped to the max_iterations of the content (lines 75-77) before the
\* metadata replaces max_iterations (lines 94-97)
TddLocals(content, metadata) ==
    LET iteration == Get(content, "iteration", 1)
        max_iterations == Get(content, "max_iterations", DEFAULT_MAX_ITERATIONS)
        metadata_max_iterations == Get(metadata, "max_iterations", 0)
    IN  [language |-> Get(content, "language", "python"),
         iteration |-> IF iteration > max_iterations
                       THEN max_iterations ELSE iteration,
         max_iterations |-> IF metadata_max_iterations > 0
                            THEN metadata_max_iterations ELSE max_iterations,
         generated_tests |-> ""]

\* lines 192-226: the keys of iteration_prompts are 1..5; the blocks are
\* named after what they ask for
iteration_prompts ==
    <<"basic", "extended", "error_handling", "performance", "comprehensive">>

\* the block chosen from the progress alone
create_tdd_test_prompt_by_progress(iteration, max_iterations) ==
    IF max_iterations # 5
    THEN IF iteration = max_iterations THEN iteration_prompts[5]
         ELSE IF 4 * iteration < max_iterations THEN iteration_prompts[1]
         ELSE IF 2 * iteration < max_iterations THEN iteration_prompts[2]
         ELSE IF 4 * iteration < 3 * max_iterations THEN iteration_prompts[3]
         ELSE iteration_prompts[4]
    ELSE IF iteration \in 1..5 THEN iteration_prompts[iteration]
         ELSE "generic"

\* lines 229-252: the instruction block create_tdd_test_prompt puts into
\* the prompt.  progress_percentage is iteration / max_iterations; for
\* max_iterations >= 1 its comparisons with 0.25, 0.5 and 0.75 (which are
\* binary fractions) are those of 4 * iteration with max_iterations,
\* 2 * iteration with max_iterations and 4 * iteration with
\* 3 * max_iterations.
create_tdd_test_prompt(iteration, max_iterations) ==
    IF max_iterations # 5                                      \* line 229
    THEN IF iteration = max_iterations THEN iteration_prompts[5]
         ELSE IF iteration = 1 THEN iteration_prompts[1]       \* lines 233-234
         ELSE IF 4 * iteration < max_iterations THEN iteration_prompts[1]
         ELSE IF 2 * iteration < max_iterations THEN iteration_prompts[2]
         ELSE IF 4 * iteration < 3 * max_iterations THEN iteration_prompts[3]
         ELSE iteration_prompts[4]
    ELSE IF iteration \in 1..5 THEN iteration_prompts[iteration]
         ELSE "generic"                                        \* line 249

\* what agent.send_prompt_to_llm does: it returns success with a response
\* that holds tests, success with a response that is only code fences,
\* success False with an error, success with an empty response, or raises
LlmOutcomes == {"tests", "fences", "success_false", "empty_response", "raises"}

\* lines 266-279: cleanup_generated_tests; language.lower() raises for None
cleanup_generated_tests(response, language) ==
    IF language = "None" THEN [raised |-> TRUE]
    ELSE [raised |-> FALSE,
          test_code |-> IF response = "fences" THEN "" ELSE response]

\* lines 111-126: the body of the try statement
GenerationBody(loc, has_agent, outcome) ==
    IF has_agent
    THEN IF outcome = "raises" THEN [raised |-> TRUE]
         ELSE IF outcome \in {"tests", "fences"}               \* lines 118-119
              THEN LET c == cleanup_generated_tests(outcome, loc.language)
                   IN  IF c.raised THEN [raised |-> TRUE]
                       ELSE [raised |-> FALSE,
                             loc |-> [loc EXCEPT !.generated_tests = c.test_code]]
              ELSE \* lines 120-123
                   [raised |-> FALSE,
                    loc |-> With(loc, "error_message",
                                 IF outcome = "success_false"
                                 THEN "LLM model error: failed"
                                 ELSE "LLM model error: No response from LLM")]
    ELSE \* lines 124-127
         [raised |-> FALSE,
          loc |-> With(loc, "error_message", "LLM backend is not available")]

GenerateTests_uncaught(loc, has_agent, outcome) ==
    LET r == GenerationBody(loc, has_agent, outcome)
    IN  IF r.raised THEN [escaped |-> TRUE, loc |-> loc]
        ELSE [escaped |-> FALSE, loc |-> r.loc]

\* lines 108-130: the try statement; except Exception keeps every exception
\* of the body inside handle_tdd_request
GenerateTests(loc, has_agent, outcome) ==
    LET r == GenerationBody(loc, has_agent, outcome)
    IN  IF r.raised
        THEN [escaped |-> FALSE,
              loc |-> With(loc, "error_message", "Unexpected error: raised")]
        ELSE [escaped |-> FALSE, loc |-> r.loc]

\* lines 133-141
ResponseContent(loc) ==
    LET response_content ==
          [test_code |-> loc.generated_tests, language |-> loc.language,
           iteration |-> loc.iteration, max_iterations |-> loc.max_iterations]
    IN  IF loc.generated_tests = ""
        THEN With(response_content, "error",
                  Get(loc, "error_message", "Unknown error: No tests generated."))
        ELSE response_content

LanguageValues == {"python", "None"}

TddContents ==
    LET D == [language : LanguageValues, iteration : 1..MaxIterations]
    IN  D \cup { With(d, "max_iterations", m) : d \in D, m \in 1..MaxIterations }

TddMetadata ==
    {<<>>} \cup { [max_iterations |-> m] : m \in 0..MaxIterations }

InitTdd ==
    /\ agent \in BOOLEAN
    /\ t_pc = "start"
    /\ t_msg \in [content : TddContents, metadata : TddMetadata]
    /\ t_ws \in [open : BOOLEAN, sent : {<<>>}, responses : {<<>>}]
    /\ t_loc = NoDict
    /\ t_exc = FALSE
    /\ CombineOff /\ EvalOff /\ LoopOff /\ SrvOff /\ HelpersOff

\* lines 52-106
TddPrepare ==
    /\ t_pc = "start"
    /\ LET loc == TddLocals(t_msg.content, t_msg.metadata)
       IN  t_loc' = With(loc, "prompt",                         \* line 100
                         create_tdd_test_prompt(loc.iteration,
                                                loc.max_iterations))
    /\ t_pc' = "generate"
    /\ UNCHANGED <<agent, t_msg, t_ws, t_exc>>

\* lines 108-130; the lock is free when there is one caller
TddGenerate ==
    /\ t_pc = "generate"
    /\ \E outcome \in LlmOutcomes :
          LET g == GenerateTests(t_loc, agent, outcome)
          IN  /\ t_loc' = With(g.loc, "llm_outcome",
                               IF agent THEN outcome ELSE "not called")
              /\ t_exc' = g.escaped
              /\ t_pc' = IF g.escaped THEN "done" ELSE "respond"
    /\ UNCHANGED <<agent, t_msg, t_ws>>

\* lines 132-157: the response is built and sent; send_text raises on a
\* closed websocket and the exception is logged
TddRespond ==
    /\ t_pc = "respond"
    /\ LET response == ResponseContent(t_loc)
       IN  t_ws' = [t_ws EXCEPT
                      !.sent = Append(@, response),
                      !.responses = IF t_ws.open THEN Append(@, response) ELSE @]
    /\ t_pc' = "done"
    /\ UNCHANGED <<agent, t_msg, t_loc, t_exc>>

TddStep == (TddPrepare \/ TddGenerate \/ TddRespond)

RequestPrepared == TddPrepare /\ UNCHANGED rest_tdd
RequestGenerated == TddGenerate /\ UNCHANGED rest_tdd
RequestAnswered == TddRespond /\ UNCHANGED rest_tdd

NextTdd == RequestPrepared \/ RequestGenerated \/ RequestAnswered

SpecTdd == InitTdd /\ [][NextTdd]_vars

---------------------------------------------------------------------------
(***************************************************************************)
(* The TDD stage of handle_suggestion (mcp_server.py 300-359) with         *)
(* process_tdd_request (388-409), which runs handle_tdd_request on a       *)
(* VirtualWebSocket that keeps the response it is sent.                    *)
(***************************************************************************)

\* lines 322-335: the content and the metadata of the request for one
\* iteration
TddRequestContent(language, iteration, max_iterations) ==
    [language |-> language, iteration |-> iteration,
     max_iterations |-> max_iterations]

TddRequestMetadata(iteration, max_iterations) ==
    [tdd_iteration |-> iteration, max_iterations |-> max_iterations]

\* lines 106-112, 332-336: MCPMessage validates content against
\* Union[MCPSuggestion, MCPEvaluation, MCPContinueRequest, MCPTDDRequest,
\* Dict[str, Any]].  The dict of a TDD request fits MCPTDDRequest (code: str,
\* language: str, iteration: int) and Dict; which of the two the validation
\* yields depends on the pydantic in use.  As an MCPTDDRequest it keeps the
\* three fields of the model only.
ValidatedContent(content, coerces) ==
    IF coerces /\ content.language # "None"
    THEN [language |-> content.language, iteration |-> content.iteration]
    ELSE content

\* lines 388-409: what process_tdd_request returns; None is <<>>
ProcessTddResult_drops_failures(escaped, ws) ==
    IF escaped THEN <<>>
    ELSE IF ws.responses # <<>> /\ ws.responses[1].test_code # ""
         THEN <<ws.responses[1]>> ELSE <<>>

ProcessTddResult(escaped, ws) ==
    IF escaped THEN <<>>
    ELSE IF ws.responses # <<>> THEN <<ws.responses[1]>> ELSE <<>>

InitLoop ==
    /\ agent \in BOOLEAN
    /\ t_pc = "idle"
    /\ t_msg = NoDict
    /\ t_ws = NoDict
    /\ t_loc = NoDict
    /\ t_exc = FALSE
    /\ s_pc = "loop"
    /\ s_max_iterations \in 0..MaxIterations
    /\ s_language \in LanguageValues
    /\ s_coerces \in BOOLEAN
    /\ s_iteration = 0
    /\ tdd_test_results = <<>>
    /\ s_issued = <<>>
    /\ CombineOff /\ EvalOff /\ SrvOff /\ HelpersOff

\* lines 310-347: the next iteration of range(1, max_iterations + 1); the
\* request is built and process_tdd_request is awaited
LoopIssue ==
    /\ s_pc = "loop" /\ s_iteration < s_max_iterations
    /\ LET iteration == s_iteration + 1
           content == TddRequestContent(s_language, iteration, s_max_iterations)
       IN  /\ s_iteration' = iteration
           /\ s_issued' = Append(s_issued, iteration)
           /\ t_msg' = [content |-> ValidatedContent(content, s_coerces),
                        metadata |-> TddRequestMetadata(iteration, s_max_iterations)]
    /\ t_ws' = [open |-> TRUE, sent |-> <<>>, responses |-> <<>>]
    /\ t_pc' = "start"
    /\ s_pc' = "await"
    /\ UNCHANGED <<agent, t_loc, t_exc, s_max_iterations, s_language,
                   s_coerces, tdd_test_results>>
    /\ UNCHANGED rest_loop

\* handle_tdd_request runs inside the await
LoopTddRequest ==
    /\ s_pc = "await"
    /\ TddStep
    /\ UNCHANGED vars_loop
    /\ UNCHANGED rest_loop

\* lines 347-350: process_tdd_request returned; a response that is not
\* None or empty is appended
LoopCollect ==
    /\ s_pc = "await" /\ t_pc = "done"
    /\ tdd_test_results' = tdd_test_results \o ProcessTddResult(t_exc, t_ws)
    /\ s_pc' = "loop"
    /\ t_pc' = "idle"
    /\ t_msg' = NoDict /\ t_ws' = NoDict /\ t_loc' = NoDict /\ t_exc' = FALSE
    /\ UNCHANGED <<agent, s_max_iterations, s_language, s_coerces,
                   s_iteration, s_issued>>
    /\ UNCHANGED rest_loop

\* lines 352-355: the range is exhausted
LoopEnd ==
    /\ s_pc = "loop" /\ s_iteration >= s_max_iterations
    /\ s_pc' = "done"
    /\ UNCHANGED <<s_max_iterations, s_language, s_coerces, s_iteration,
                   tdd_test_results, s_issued>>
    /\ UNCHANGED vars_tdd
    /\ UNCHANGED rest_loop

NextLoop == LoopIssue \/ LoopTddRequest \/ LoopCollect \/ LoopEnd

SpecLoop == InitLoop /\ [][NextLoop]_vars

---------------------------------------------------------------------------
(***************************************************************************)
(* The server under concurrent clients (mcp_server.py 202-244, 246-445;    *)
(* tdd_helpers.py 46, 110-130).                                            *)
(*                                                                         *)
(* A task is one run of process_client_queue: it takes the messages of its *)
(* client one after another and runs the handler of each.  All tasks run   *)
(* on the one thread of the event loop: a step of a task runs from one     *)
(* await that suspends to the next, and no other task runs in between.     *)
(*   handle_tdd_request awaits llm_request_lock and then the call of       *)
(*     agent.send_prompt_to_llm that it hands to the executor, which runs  *)
(*     it on a thread of its own (tdd_helpers.py 116-117).                 *)
(*   handle_continue (mcp_server.py 428) and evaluate_proposed_changes in  *)
(*     handle_suggestion (287) call agent.send_prompt_to_llm directly: the *)
(*     event loop's thread is inside the call until it returns.            *)
(* tdd_helpers.agent is set (run_server, mcp_server.py 543).               *)
(***************************************************************************)

\* bound: the number of tasks
NumTasks == 3

Tasks == 1..NumTasks

MessageTypes == {"suggestion", "continue", "tdd_request"}

\* metadata max_iterations of a suggestion; run_tdd False is 0
IterationChoices == {0, 1, 2}

CallOutcomes == {"returned", "failed", "raised"}

IdleTask == [pc |-> "idle", type |-> "none", left |-> 0, call |-> "none"]

Init ==
    /\ tasks = [t \in Tasks |-> IdleTask]
    /\ loop_busy = NoTask
    /\ lock_holder = NoTask
    /\ lock_waiters = <<>>
    /\ lock_woken = FALSE
    /\ wait_order = <<>>
    /\ agent = TRUE
    /\ t_pc = "off" /\ t_msg = NoDict /\ t_ws = NoDict /\ t_loc = NoDict
    /\ t_exc = FALSE
    /\ CombineOff /\ EvalOff /\ LoopOff /\ HelpersOff

LockFree_always(holder, waiters) == TRUE

\* asyncio.Lock.acquire does not suspend when the lock is free and nobody
\* waits for it
LockFree(holder, waiters) == holder = NoTask /\ waiters = <<>>

Enqueue_in_front(waiters, t) == <<t>> \o waiters

\* asyncio.Lock.acquire otherwise appends the caller to the waiters
Enqueue(waiters, t) == Append(waiters, t)

\* tdd_helpers.py 116-117: async with llm_request_lock, then
\* run_in_executor: the task either takes the lock and hands the call to the
\* executor, or joins the waiters
AcquireAndCall(t, task) ==
    IF LockFree(lock_holder, lock_waiters)
    THEN /\ lock_holder' = t
         /\ tasks' = [tasks EXCEPT ![t] = [task EXCEPT !.pc = "tdd_call",
                                                       !.call = "running"]]
         /\ UNCHANGED <<lock_waiters, lock_woken, wait_order>>
    ELSE /\ lock_waiters' = Enqueue(lock_waiters, t)
         /\ wait_order' = Append(wait_order, t)
         /\ tasks' = [tasks EXCEPT ![t] = [task EXCEPT !.pc = "tdd_wait"]]
         /\ UNCHANGED <<lock_holder, lock_woken>>

\* the handler returned: process_client_queue goes on to the next message
Handled(task) ==
    [task EXCEPT !.pc = "idle", !.type = "none", !.left = 0, !.call = "none"]

\* mcp_server.py 205-213, 222-231: the task takes the next message of its
\* client and runs its handler up to the first await that suspends
TakeMessage(t) ==
    /\ loop_busy = NoTask
    /\ tasks[t].pc = "idle"
    /\ \E type \in MessageTypes :
          LET task == [tasks[t] EXCEPT !.type = type]
          IN  IF type = "tdd_request"
              THEN /\ AcquireAndCall(t, [task EXCEPT !.left = 1])
                   /\ UNCHANGED loop_busy
              ELSE \* mcp_server.py 287 and 428: the call is made on the
                   \* event loop's thread
                   /\ tasks' = [tasks EXCEPT ![t] = [task EXCEPT !.pc = "sync_call"]]
                   /\ loop_busy' = t
                   /\ UNCHANGED <<lock_holder, lock_waiters, lock_woken,
                                  wait_order>>

\* the direct call returns or raises.  handle_continue then sends its
\* response (430-445); handle_suggestion goes on to the first TDD iteration
\* (300-347), or to its response when there is none or the call raised
SyncCallReturns(t) ==
    /\ loop_busy = t /\ tasks[t].pc = "sync_call"
    /\ loop_busy' = NoTask
    /\ \E outcome \in CallOutcomes, max_iterations \in IterationChoices :
          IF tasks[t].type = "suggestion" /\ outcome # "raised"
                /\ max_iterations > 0
          THEN AcquireAndCall(t, [tasks[t] EXCEPT !.left = max_iterations])
          ELSE /\ tasks' = [tasks EXCEPT ![t] = Handled(tasks[t])]
               /\ UNCHANGED <<lock_holder, lock_waiters, lock_woken,
                              wait_order>>

\* asyncio.Lock.acquire of a waiter: release has set the future of the
\* first waiter; when the task runs again it leaves the waiters and takes
\* the lock, and the call is handed to the executor
LockGranted(t) ==
    /\ loop_busy = NoTask
    /\ tasks[t].pc = "tdd_wait"
    /\ lock_woken /\ lock_waiters # <<>> /\ Head(lock_waiters) = t
    /\ lock_waiters' = Tail(lock_waiters)
    /\ wait_order' = SelectSeq(wait_order, LAMBDA u : u # t)
    /\ lock_woken' = FALSE
    /\ lock_holder' = t
    /\ tasks' = [tasks EXCEPT ![t] = [@ EXCEPT !.pc = "tdd_call",
                                               !.call = "running"]]
    /\ UNCHANGED loop_busy

\* the executor's thread: agent.send_prompt_to_llm returns success, returns
\* a failure or raises; this needs no step of the event loop
CallCompletes(t) ==
    /\ tasks[t].call = "running"
    /\ \E outcome \in CallOutcomes :
          tasks' = [tasks EXCEPT ![t] = [@ EXCEPT !.call = outcome]]
    /\ UNCHANGED <<loop_busy, lock_holder, lock_waiters, lock_woken,
                   wait_order>>

\* tdd_helpers.py 116-157: the await of the call ends, with a result or an
\* exception; leaving the async with block releases the lock and sets the
\* future of the first waiter.  The response is sent; a suggestion with
\* iterations left goes on to the next one (mcp_server.py 309-347)
CallResumes(t) ==
    /\ loop_busy = NoTask
    /\ tasks[t].pc = "tdd_call" /\ tasks[t].call \in CallOutcomes
    /\ IF tasks[t].left > 1
       THEN \* the lock is released before it is asked for again
            IF LockFree(NoTask, lock_waiters)
            THEN /\ tasks' = [tasks EXCEPT ![t] =
                                [@ EXCEPT !.left = @ - 1, !.call = "running"]]
                 /\ UNCHANGED <<lock_holder, lock_waiters, lock_woken,
                                wait_order>>
            ELSE /\ lock_holder' = NoTask
                 /\ lock_woken' = TRUE
                 /\ lock_waiters' = Enqueue(lock_waiters, t)
                 /\ wait_order' = Append(wait_order, t)
                 /\ tasks' = [tasks EXCEPT ![t] =
                                [@ EXCEPT !.left = @ - 1, !.pc = "tdd_wait",
                                          !.call = "none"]]
       ELSE /\ lock_holder' = NoTask
            /\ lock_woken' = (lock_waiters # <<>>)
            /\ tasks' = [tasks EXCEPT ![t] = Handled(tasks[t])]
            /\ UNCHANGED <<lock_waiters, wait_order>>
    /\ UNCHANGED loop_busy

Take == (\E t \in Tasks : TakeMessage(t)) /\ UNCHANGED rest_srv
SyncReturn == (\E t \in Tasks : SyncCallReturns(t)) /\ UNCHANGED rest_srv
Grant == (\E t \in Tasks : LockGranted(t)) /\ UNCHANGED rest_srv
Complete == (\E t \in Tasks : CallCompletes(t)) /\ UNCHANGED rest_srv
Resume == (\E t \in Tasks : CallResumes(t)) /\ UNCHANGED rest_srv

Next == Take \/ SyncReturn \/ Grant \/ Complete \/ Resume

Spec == Init /\ [][Next]_vars

\* The event loop runs every task that is ready (asyncio keeps the ready
\* callbacks in a queue), and every call of agent.send_prompt_to_llm ends.
\* Clients need not send messages.
Fairness ==
    /\ WF_vars(SyncReturn)
    /\ SF_vars(Grant)
    /\ WF_vars(Complete)
    /\ SF_vars(Resume)

FairSpec == Spec /\ Fairness

---------------------------------------------------------------------------
(***************************************************************************)
(* evaluate_test_quality (test_quality_metrics.py 132-244)                 *)
(*                                                                         *)
(* Scores are in thousandths (700 is 0.7).  The test code is a record of   *)
(* what the function's scans find in it: whether it is empty or shorter    *)
(* than 10 characters when stripped, the leading-space counts of its       *)
(* non-blank lines in order, and the scores of the sub-functions whose     *)
(* regular expressions are not modelled.  A quotient is rounded down to    *)
(* the thousandth.                                                         *)
(***************************************************************************)
MaxLines == 3

IndentSizes == {0, 2, 4}

SeqsUpTo(S, n) == UNION {[1..k -> S] : k \in 0..n}

Count(s, v) == Cardinality({i \in 1..Len(s) : s[i] = v})

FirstIndex(s, v) == CHOOSE i \in 1..Len(s) : s[i] = v /\ \A j \in 1..(i - 1) : s[j] # v

\* Counter(indent_sizes).most_common(1)[0][0]: the most frequent value, the
\* one met first among equally frequent ones
ModeIndent(indent_sizes) ==
    CHOOSE v \in {indent_sizes[i] : i \in 1..Len(indent_sizes)} :
        \A w \in {indent_sizes[i] : i \in 1..Len(indent_sizes)} :
            \/ Count(indent_sizes, v) > Count(indent_sizes, w)
            \/ /\ Count(indent_sizes, v) = Count(indent_sizes, w)
               /\ FirstIndex(indent_sizes, v) <= FirstIndex(indent_sizes, w)

\* lines 655-672: raises ZeroDivisionError at size % mode_indent when the
\* mode is 0
IndentConsistency(indent_sizes) ==
    IF Len(indent_sizes) = 0 THEN [value |-> 1000]
    ELSE LET mode_indent == ModeIndent(indent_sizes)
         IN  IF mode_indent = 0 THEN Raised
             ELSE LET consistent_lines ==
                          Cardinality({i \in 1..Len(indent_sizes) :
                                          indent_sizes[i] % mode_indent = 0})
                  IN  [value |-> (consistent_lines * 1000) \div Len(indent_sizes)]

\* _calculate_readability, lines 558-688
calculate_readability(code) ==
    LET indent == IndentConsistency(code.indents)
    IN  IF "raised" \in DOMAIN indent THEN Raised
        ELSE [score |-> (code.comment_score * 25 + code.descriptive_names * 25
                         + (IF code.organized THEN 1000 ELSE 0) * 20
                         + code.line_length_score * 15
                         + indent.value * 15) \div 100,
              indent_consistency |-> indent.value]

\* _calculate_task_alignment, lines 791-843; {"score": 0.7} of line 165 when
\* task_description is empty or None
calculate_task_alignment(task) ==
    IF ~task.given THEN 700
    ELSE LET alignment_score ==
                 IF task.task_terms = 0 THEN 700
                 ELSE Min2(1000, (task.matched_terms * 1000) \div task.task_terms + 200)
         IN  IF task.req_indicators THEN Min2(1000, alignment_score + 100)
             ELSE alignment_score

\* weights of _calculate_overall_quality, in hundredths
QualityWeights == <<20, 15, 20, 15, 10, 10, 10>>

RECURSIVE WeightedSum(_, _)
WeightedSum(scores, weights) ==
    IF scores = <<>> THEN 0
    ELSE Head(scores) * Head(weights) + WeightedSum(Tail(scores), Tail(weights))

\* _calculate_overall_quality, lines 845-869
calculate_overall_quality(scores) ==
    IF scores = <<>> THEN 0
    ELSE Min2(1000, Max2(0, WeightedSum(scores, QualityWeights) \div 100))

\* lines 154-165
MinimalQuality ==
    [completeness_score |-> 0, variety_score |-> 0, edge_case_score |-> 0,
     assertion_density |-> 0, readability_score |-> 0, overall_quality |-> 0]

\* lines 229-244
QualityResult(loc, isolation, alignment) ==
    [completeness_score |-> loc.completeness,
     variety_score |-> loc.variety,
     edge_case_score |-> loc.edge_case_coverage,
     normalized_assertion_density |-> loc.assertion_density,
     readability_score |-> loc.readability.score,
     test_isolation_score |-> isolation,
     task_alignment_score |-> alignment,
     overall_quality |->
         calculate_overall_quality(<<loc.completeness, loc.variety,
             loc.edge_case_coverage, loc.assertion_density,
             loc.readability.score, isolation, alignment>>)]

\* lines 160-163
QualityLocals(code) ==
    [completeness |-> code.completeness, variety |-> code.variety,
     edge_case_coverage |-> code.edge_case, assertion_density |-> code.assertion]

\* the whole call
evaluate_test_quality(code, task) ==
    IF code.minimal THEN MinimalQuality
    ELSE LET readability == calculate_readability(code)
         IN  IF "raised" \in DOMAIN readability THEN Raised
             ELSE QualityResult(With(QualityLocals(code), "readability", readability),
                                code.isolation, calculate_task_alignment(task))

\* the scores a sub-function is modelled to return
SubScores == {0, 1000}

ReadabilityInputs ==
    {[comment_score |-> 0, descriptive_names |-> 0, organized |-> FALSE,
      line_length_score |-> 0],
     [comment_score |-> 1000, descriptive_names |-> 0, organized |-> TRUE,
      line_length_score |-> 500],
     [comment_score |-> 1000, descriptive_names |-> 1000, organized |-> TRUE,
      line_length_score |-> 1000]}

\* a test code: minimal code has at most one non-blank line, other code at
\* least one
TestCodes ==
    {[minimal |-> minimal, indents |-> indents,
      completeness |-> s[1], variety |-> s[2], edge_case |-> s[3],
      assertion |-> s[4], isolation |-> s[5],
      comment_score |-> r.comment_score,
      descriptive_names |-> r.descriptive_names, organized |-> r.organized,
      line_length_score |-> r.line_length_score] :
        minimal \in BOOLEAN, indents \in SeqsUpTo(IndentSizes, MaxLines),
        s \in [1..5 -> SubScores], r \in ReadabilityInputs}

WellFormedCode(code) ==
    IF code.minimal
    THEN Len(code.indents) <= 1 /\ code.completeness = 0 /\ code.variety = 0
         /\ code.edge_case = 0 /\ code.assertion = 0 /\ code.comment_score = 0
         /\ ~code.organized /\ code.descriptive_names = 0
    ELSE Len(code.indents) >= 1

TaskDescriptions ==
    {[given |-> FALSE, task_terms |-> 0, matched_terms |-> 0, req_indicators |-> FALSE],
     [given |-> TRUE, task_terms |-> 0, matched_terms |-> 0, req_indicators |-> FALSE],
     [given |-> TRUE, task_terms |-> 2, matched_terms |-> 0, req_indicators |-> FALSE],
     [given |-> TRUE, task_terms |-> 2, matched_terms |-> 1, req_indicators |-> TRUE],
     [given |-> TRUE, task_terms |-> 2, matched_terms |-> 2, req_indicators |-> TRUE]}

InitQuality ==
    /\ q_pc = "call"
    /\ q_code \in {code \in TestCodes : WellFormedCode(code)}
    /\ q_task \in TaskDescriptions
    /\ q_loc = NoDict
    /\ q_out = NoDict
    /\ PipelineOff /\ ExecOff /\ RelevanceOff /\ MessageOff /\ SuggestionOff /\ CleanupOff /\ QueueOff

\* lines 154-165: empty or minimal test code
QualityMinimal ==
    /\ q_pc = "call"
    /\ q_code.minimal
    /\ q_out' = MinimalQuality
    /\ q_pc' = "done"
    /\ UNCHANGED <<q_code, q_task, q_loc>>
    /\ UNCHANGED rest_quality

\* lines 167-176: completeness, variety, edge cases, assertion density
QualityMetrics ==
    /\ q_pc = "call"
    /\ ~q_code.minimal
    /\ q_loc' = QualityLocals(q_code)
    /\ q_pc' = "readability"
    /\ UNCHANGED <<q_code, q_task, q_out>>
    /\ UNCHANGED rest_quality

\* line 177: _calculate_readability, whose exception leaves the function
QualityReadability ==
    /\ q_pc = "readability"
    /\ LET readability == calculate_readability(q_code)
       IN  IF "raised" \in DOMAIN readability
           THEN /\ q_out' = Raised
                /\ q_pc' = "done"
                /\ UNCHANGED q_loc
           ELSE /\ q_loc' = With(q_loc, "readability", readability)
                /\ q_pc' = "overall"
                /\ UNCHANGED q_out
    /\ UNCHANGED <<q_code, q_task>>
    /\ UNCHANGED rest_quality

\* lines 178-244: isolation, task alignment, overall quality, the result
QualityOverall ==
    /\ q_pc = "overall"
    /\ q_out' = QualityResult(q_loc, q_code.isolation, calculate_task_alignment(q_task))
    /\ q_pc' = "done"
    /\ UNCHANGED <<q_code, q_task, q_loc>>
    /\ UNCHANGED rest_quality

NextQuality == QualityMinimal \/ QualityMetrics \/ QualityReadability \/ QualityOverall

SpecQuality == InitQuality /\ [][NextQuality]_vars

---------------------------------------------------------------------------
(***************************************************************************)
(* run_language_specific_tests, parse_test_output, simulate_test_execution *)
(* and count_tests (test_execution.py 187-625)                             *)
(*                                                                         *)
(* The output of the test runner is a sequence of pieces, each a piece of  *)
(* text that one of the regular expressions of parse_test_output can       *)
(* match: "n passed", "n failed", "n tests", "success", the Jest summary   *)
(* line "Tests: p passed, f failed, t total", the Google Test lines        *)
(* "[==========] n tests" and "[  PASSED  ] n tests", and the JUnit line   *)
(* "Tests run: n, Failures: f, Errors: e".  re.search finds the leftmost   *)
(* match, which is the first piece of the sequence that matches.           *)
(***************************************************************************)
MaxPieces == 2

Counts == {0, 1, 2}

Languages == {"python", "javascript", "cpp", "java", "ruby"}

ExecIterations == {1, 5}

GenericPieces ==
    {[word |-> w, n |-> n] : w \in {"passed", "failed", "tests"}, n \in Counts}
        \cup {[word |-> "success", n |-> 0]}

JestPieces ==
    {[word |-> "jest", passed |-> p, failed |-> f, total |-> t] :
        p \in Counts, f \in Counts, t \in Counts}

GtestPieces ==
    {[word |-> w, n |-> n] : w \in {"gtest_ran", "gtest_passed"}, n \in Counts}

JunitPieces ==
    {[word |-> "junit", run |-> n, failures |-> f, errors |-> e] :
        n \in Counts, f \in Counts, e \in Counts}

\* the pieces the runner of a language can print
Pieces(language) ==
    GenericPieces \cup
        CASE language = "javascript" -> JestPieces
          [] language = "cpp" -> GtestPieces
          [] language = "java" -> JunitPieces
          [] OTHER -> {}

Outputs(language) == SeqsUpTo(Pieces(language), MaxPieces)

\* the index of the first piece with one of the words, 0 when there is none
First(output, words) ==
    IF \E i \in 1..Len(output) : output[i].word \in words
    THEN CHOOSE i \in 1..Len(output) :
             /\ output[i].word \in words
             /\ \A j \in 1..(i - 1) : output[j].word \notin words
    ELSE 0

\* r"(\d+) passed,?\s*(\d+) failed", line 419
SummaryMatch(output) ==
    IF \E i \in 1..(Len(output) - 1) :
           output[i].word = "passed" /\ output[i + 1].word = "failed"
    THEN CHOOSE i \in 1..(Len(output) - 1) :
             /\ output[i].word = "passed" /\ output[i + 1].word = "failed"
             /\ \A j \in 1..(i - 1) :
                    ~(output[j].word = "passed" /\ output[j + 1].word = "failed")
    ELSE 0

\* the number a piece gives to the patterns of lines 483 and 487
PassNumber(piece) == IF piece.word = "jest" THEN piece.passed ELSE piece.n
FailNumber(piece) == IF piece.word = "jest" THEN piece.failed ELSE piece.n

\* lines 416-473: the parser of the language
LanguageParse(language, output, result) ==
    CASE language = "python" ->
           LET summary_match == SummaryMatch(output)
               passed_only == First(output, {"passed"})
           IN  IF summary_match # 0
               THEN [result EXCEPT
                        !.passed_tests = output[summary_match].n,
                        !.failed_tests = output[summary_match + 1].n,
                        !.total_tests = output[summary_match].n + output[summary_match + 1].n,
                        !.success = (output[summary_match + 1].n = 0)]
               ELSE IF passed_only # 0
               THEN [result EXCEPT
                        !.passed_tests = output[passed_only].n,
                        !.total_tests = output[passed_only].n,
                        !.success = TRUE]
               ELSE result
      [] language \in {"javascript", "typescript"} ->
           LET summary_match == First(output, {"jest"})
           IN  IF summary_match # 0
               THEN [result EXCEPT
                        !.passed_tests = output[summary_match].passed,
                        !.failed_tests = output[summary_match].failed,
                        !.total_tests = output[summary_match].total,
                        !.success = (output[summary_match].failed = 0)]
               ELSE result
      [] language = "cpp" ->
           LET total_match == First(output, {"gtest_ran"})
               passed_match == First(output, {"gtest_passed"})
               passed == IF passed_match # 0 THEN output[passed_match].n ELSE 0
           IN  IF total_match # 0
               THEN [result EXCEPT
                        !.total_tests = output[total_match].n,
                        !.passed_tests = passed,
                        !.failed_tests = output[total_match].n - passed,
                        !.success = (output[total_match].n - passed = 0)]
               ELSE result
      [] language = "java" ->
           LET junit_match == First(output, {"junit"})
           IN  IF junit_match # 0
               THEN LET total == output[junit_match].run
                        failures == output[junit_match].failures
                        errors == output[junit_match].errors
                    IN  [result EXCEPT
                            !.total_tests = total,
                            !.failed_tests = failures + errors,
                            !.passed_tests = total - (failures + errors),
                            !.success = (failures + errors = 0)]
               ELSE result
      [] OTHER -> result

\* lines 476-503: the common patterns, tried when no test was counted
GenericParse(output, result) ==
    LET test_count == First(output, {"tests", "gtest_ran", "gtest_passed"})
        pass_count == First(output, {"passed", "jest"})
        fail_count == First(output, {"failed", "jest"})
        counted ==
            [result EXCEPT
                !.total_tests = IF test_count # 0 THEN output[test_count].n ELSE @,
                !.passed_tests = IF pass_count # 0 THEN PassNumber(output[pass_count]) ELSE @,
                !.failed_tests = IF fail_count # 0 THEN FailNumber(output[fail_count]) ELSE @]
    IN  IF counted.total_tests > 0
        THEN IF counted.passed_tests = 0 /\ counted.failed_tests = 0
             THEN IF First(output, {"success"}) # 0
                  THEN [counted EXCEPT !.passed_tests = counted.total_tests,
                                       !.success = TRUE]
                  ELSE counted
             ELSE IF counted.passed_tests > 0 /\ counted.failed_tests = 0
             THEN [counted EXCEPT
                      !.failed_tests = counted.total_tests - counted.passed_tests,
                      !.success = (counted.total_tests - counted.passed_tests = 0)]
             ELSE IF counted.failed_tests > 0 /\ counted.passed_tests = 0
             THEN [counted EXCEPT
                      !.passed_tests = counted.total_tests - counted.failed_tests,
                      !.success = FALSE]
             ELSE counted
        ELSE counted

\* lines 506-511: the lines of the output that name an error, 10 at most
ErrorLines(output) ==
    Min2(10, Cardinality({i \in 1..Len(output) :
                             output[i].word \in {"failed", "jest", "junit"}}))

\* parse_test_output, lines 391-513
parse_test_output(language, output) ==
    LET parsed == LanguageParse(language, output, TestExecutionResult(0, 0, 0, 0, FALSE))
        result == IF parsed.total_tests = 0 THEN GenericParse(output, parsed)
                  ELSE parsed
    IN  IF ~result.success THEN [result EXCEPT !.errors = ErrorLines(output)]
        ELSE result

\* count_tests, lines 573-625: pattern_count is the number of matches of the
\* test patterns of the language, assertion_count that of assert|expect|should
count_tests(code) ==
    LET count == IF code.pattern_count = 0 /\ code.assertion_count > 0
                 THEN Max2(1, code.assertion_count \div 2)
                 ELSE code.pattern_count
    IN  Max2(1, count)

\* the result of lines 237-242, 245-250 and 566-571: no test, one error
FailureResult == TestExecutionResult(0, 0, 0, 1, FALSE)

\* test_quality.get('score', 0.5), line 543
QualityScore(test_quality) == Get(test_quality, "score", 500)

\* pass_ratio without the cap of 0.95
simulate_test_execution_uncapped(code, iteration, task) ==
    LET test_quality == evaluate_test_quality(code.quality, task)
    IN  IF "raised" \in DOMAIN test_quality THEN FailureResult
        ELSE LET quality_score == QualityScore(test_quality)
                 test_count == count_tests(code)
                 pass_ratio == quality_score + iteration * 100
                 passed == (test_count * pass_ratio) \div 1000
                 failed == test_count - passed
             IN  TestExecutionResult(test_count, passed, failed, 0, failed = 0)

\* simulate_test_execution, lines 515-571, for the files it could read.  With
\* quality_score 0.5 and fewer than 90 tests, int(test_count * pass_ratio) is
\* the integer quotient below.
simulate_test_execution(code, iteration, task) ==
    LET test_quality == evaluate_test_quality(code.quality, task)
    IN  IF "raised" \in DOMAIN test_quality THEN FailureResult
        ELSE LET quality_score == QualityScore(test_quality)
                 test_count == count_tests(code)
                 pass_ratio == Min2(950, quality_score + iteration * 100)
                 passed == (test_count * pass_ratio) \div 1000
                 failed == test_count - passed
             IN  TestExecutionResult(test_count, passed, failed, 0, failed = 0)

\* get_test_command, lines 252-372: whether it returns a command
HasCommand(language, compiles) ==
    CASE language \in {"python", "javascript"} -> TRUE
      [] language \in {"cpp", "java"} -> compiles
      [] OTHER -> FALSE

\* the test codes that simulate_test_execution reads from the test file
SimulatedCodes ==
    {[quality |-> c, pattern_count |-> p, assertion_count |-> a] :
        c \in {code \in TestCodes :
                  /\ WellFormedCode(code)
                  /\ Len(code.indents) <= 2
                  /\ code.variety = code.completeness
                  /\ code.edge_case = code.completeness
                  /\ code.assertion = code.completeness
                  /\ code.isolation = code.completeness},
        p \in Counts, a \in Counts}

ExecTasks == {task \in TaskDescriptions : task.task_terms = 0}

InitExec ==
    /\ x_pc = "call"
    /\ x_in \in {[language |-> l, iteration |-> i, task |-> t, compiles |-> c] :
                    l \in Languages, i \in ExecIterations, t \in ExecTasks,
                    c \in BOOLEAN}
    /\ x_in.language \notin {"cpp", "java"} => x_in.compiles
    /\ x_out = NoDict
    /\ PipelineOff /\ QualityOff /\ RelevanceOff /\ MessageOff /\ SuggestionOff /\ CleanupOff /\ QueueOff

\* lines 207-211: no command, the simulation is the result
ExecNoCommand ==
    /\ x_pc = "call"
    /\ ~HasCommand(x_in.language, x_in.compiles)
    /\ x_in' = With(x_in, "run", "no_command")
    /\ x_pc' = "simulate"
    /\ UNCHANGED x_out
    /\ UNCHANGED rest_exec

\* lines 214-234: subprocess.run returns with the output of the runner
ExecCompletes ==
    /\ x_pc = "call"
    /\ HasCommand(x_in.language, x_in.compiles)
    /\ \E output \in Outputs(x_in.language) :
           x_in' = With(With(x_in, "run", "completed"), "output", output)
    /\ x_pc' = "parse"
    /\ UNCHANGED x_out
    /\ UNCHANGED rest_exec

\* lines 235-242: subprocess.run raises TimeoutExpired after 30 seconds
ExecTimesOut ==
    /\ x_pc = "call"
    /\ HasCommand(x_in.language, x_in.compiles)
    /\ x_in' = With(x_in, "run", "timeout")
    /\ x_out' = FailureResult
    /\ x_pc' = "done"
    /\ UNCHANGED rest_exec

\* lines 243-250: subprocess.run or parse_test_output raises
ExecRaises ==
    /\ x_pc = "call"
    /\ HasCommand(x_in.language, x_in.compiles)
    /\ x_in' = With(x_in, "run", "error")
    /\ x_out' = FailureResult
    /\ x_pc' = "done"
    /\ UNCHANGED rest_exec

\* lines 228-234
ExecParse ==
    /\ x_pc = "parse"
    /\ x_out' = parse_test_output(x_in.language, x_in.output)
    /\ x_pc' = "done"
    /\ UNCHANGED x_in
    /\ UNCHANGED rest_exec

\* line 211 and lines 533-571: the test file is read and scored
ExecSimulate ==
    /\ x_pc = "simulate"
    /\ \E code \in SimulatedCodes :
           /\ x_in' = With(x_in, "code", code)
           /\ x_out' = simulate_test_execution(code, x_in.iteration, x_in.task)
    /\ x_pc' = "done"
    /\ UNCHANGED rest_exec

NextExec ==
    \/ ExecNoCommand
    \/ ExecCompletes
    \/ ExecTimesOut
    \/ ExecRaises
    \/ ExecParse
    \/ ExecSimulate

SpecExec == InitExec /\ [][NextExec]_vars

---------------------------------------------------------------------------
(***************************************************************************)
(* calculate_term_presence (task_relevance.py 118-140)                     *)
(*                                                                         *)
(* A string is a sequence of characters; the result is in thousandths.     *)
(***************************************************************************)
MaxTermLen == 2

Letters == {"a", "b", "A"}

Characters == Letters \cup {" "}

\* str.lower() of one character and of a string
LowerChar(c) == IF c = "A" THEN "a" ELSE c

Lower(text) == [i \in 1..Len(text) |-> LowerChar(text[i])]

\* term in text
Contains(text, term) ==
    \E i \in 0..(Len(text) - Len(term)) :
        \A j \in 1..Len(term) : text[i + j] = term[j]

\* line 137: a match of \bterm\b in text is also a place where term in text
\* holds, so the disjunction is term in text
TermPresent(term, text) == Contains(text, term)

\* lines 128-140
calculate_term_presence(terms, text) ==
    IF terms = {} THEN 0
    ELSE LET lowered == Lower(text)
             present_terms == {term \in terms : TermPresent(term, lowered)}
         IN  (Cardinality(present_terms) * 1000) \div Cardinality(terms)

Terms == SeqsUpTo(Letters, MaxTermLen) \ {<<>>}

TermSets == {T \in SUBSET Terms : Cardinality(T) <= 2}

Texts == SeqsUpTo(Characters, MaxTermLen + 1)

InitRelevance ==
    /\ r_pc = "call"
    /\ r_terms \in TermSets
    /\ r_text \in Texts
    /\ r_out = NoDict
    /\ PipelineOff /\ QualityOff /\ ExecOff /\ MessageOff /\ SuggestionOff /\ CleanupOff /\ QueueOff

\* lines 128-129
TermPresenceEmpty ==
    /\ r_pc = "call"
    /\ r_terms = {}
    /\ r_out' = [value |-> calculate_term_presence(r_terms, r_text)]
    /\ r_pc' = "done"
    /\ UNCHANGED <<r_terms, r_text>>
    /\ UNCHANGED rest_relevance

\* lines 131-140
TermPresenceCounted ==
    /\ r_pc = "call"
    /\ r_terms # {}
    /\ r_out' = [value |-> calculate_term_presence(r_terms, r_text)]
    /\ r_pc' = "done"
    /\ UNCHANGED <<r_terms, r_text>>
    /\ UNCHANGED rest_relevance

NextRelevance == TermPresenceEmpty \/ TermPresenceCounted

SpecRelevance == InitRelevance /\ [][NextRelevance]_vars

---------------------------------------------------------------------------
(***************************************************************************)
(* MCPMessage and its content models (mcp_server.py 69-112)                *)
(*                                                                         *)
(* A value is [model, fields]: an instance of one of the content models,   *)
(* or a dict (model "dict").  A field whose value is None is an absent     *)
(* key.  How a Union field is validated depends on the pydantic in use:    *)
(* from left to right, where a member takes a value of another class when  *)
(* the fields it requires are among the value's fields, or in smart mode,  *)
(* where an instance of a member is kept as it is.                         *)
(***************************************************************************)
UnionMembers ==
    <<"MCPSuggestion", "MCPEvaluation", "MCPContinueRequest", "MCPTDDRequest", "dict">>

\* the fields declared with Field(...)
RequiredFields_prompt_optional(model) ==
    CASE model = "MCPSuggestion" -> {"original_code", "proposed_changes"}
      [] model = "MCPEvaluation" ->
             {"accept", "hallucination_risk", "recursive_risk", "alignment_score", "reason"}
      [] model = "MCPContinueRequest" -> {}
      [] model = "MCPTDDRequest" -> {"code", "language", "iteration"}
      [] OTHER -> {}

RequiredFields(model) ==
    CASE model = "MCPSuggestion" -> {"original_code", "proposed_changes"}
      [] model = "MCPEvaluation" ->
             {"accept", "hallucination_risk", "recursive_risk", "alignment_score", "reason"}
      [] model = "MCPContinueRequest" -> {"prompt"}
      [] model = "MCPTDDRequest" -> {"code", "language", "iteration"}
      [] OTHER -> {}

\* the fields with a default: Field(None, ...) stays absent
OptionalFields(model) ==
    CASE model = "MCPSuggestion" -> {"file_path", "language", "task_description"}
      [] model = "MCPEvaluation" -> {"issues_detected", "recommendations"}
      [] model = "MCPContinueRequest" -> {"timeout_occurred", "error_message"}
      [] OTHER -> {}

FieldDefaults(model) ==
    CASE model = "MCPEvaluation" -> [issues_detected |-> <<>>, recommendations |-> <<>>]
      [] model = "MCPContinueRequest" -> [timeout_occurred |-> FALSE]
      [] OTHER -> <<>>

\* whether a member of the union takes the value
Validates(model, value) ==
    \/ value.model = model
    \/ model = "dict"
    \/ RequiredFields(model) \subseteq DOMAIN value.fields

\* the value the member makes of it: an instance of the member is kept, a
\* dict is made of the fields, another model keeps its own fields and fills
\* in its defaults
ValidateAs(model, value) ==
    IF value.model = model THEN value
    ELSE IF model = "dict" THEN [model |-> "dict", fields |-> value.fields]
    ELSE LET kept == DOMAIN value.fields
                         \cap (RequiredFields(model) \cup OptionalFields(model))
             defaults == FieldDefaults(model)
         IN  [model |-> model,
              fields |-> [k \in kept \cup DOMAIN defaults |->
                             IF k \in kept THEN value.fields[k] ELSE defaults[k]]]

\* validation from left to right: the first member that takes the value
LeftToRight(value) ==
    LET first == CHOOSE i \in 1..Len(UnionMembers) :
                     /\ Validates(UnionMembers[i], value)
                     /\ \A j \in 1..(i - 1) : ~Validates(UnionMembers[j], value)
    IN  ValidateAs(UnionMembers[first], value)

\* smart mode: the value's own class when it is a member; for a dict the
\* dict itself or what validation from left to right makes of it
Smart(value) == {value, LeftToRight(value)}

Strings == {"", "x"}

Suggestions ==
    {[model |-> "MCPSuggestion", fields |-> f] :
        f \in WithOptional(WithOptional(
                  {[original_code |-> o, proposed_changes |-> p] :
                       o \in Strings, p \in Strings},
                  "language", {"python"}), "task_description", {"x"})}

Evaluations ==
    {[model |-> "MCPEvaluation",
      fields |-> [accept |-> a, hallucination_risk |-> h, recursive_risk |-> 0,
                  alignment_score |-> 10, issues_detected |-> i,
                  recommendations |-> <<>>, reason |-> "x"]] :
        a \in BOOLEAN, h \in {0, 8}, i \in {<<>>, <<"x">>}}

ContinueRequests ==
    {[model |-> "MCPContinueRequest", fields |-> f] :
        f \in WithOptional({[prompt |-> p, timeout_occurred |-> t] :
                               p \in Strings, t \in BOOLEAN},
                           "error_message", {"x"})}

TDDRequests ==
    {[model |-> "MCPTDDRequest",
      fields |-> [code |-> c, language |-> l, iteration |-> i]] :
        c \in Strings, l \in {"python", "cpp"}, i \in {1, 2}}

\* the dicts handle_suggestion sends as content (lines 322-330), and others
ContentDicts ==
    {[model |-> "dict", fields |-> f] :
        f \in {[code |-> "x", language |-> "python", iteration |-> 1,
                max_iterations |-> 3, task_description |-> "x"],
               [accept |-> TRUE, tdd_score |-> 5],
               [prompt |-> "x", max_tokens |-> 3],
               <<>>}}

Contents == Suggestions \cup Evaluations \cup ContinueRequests \cup TDDRequests \cup ContentDicts

Contexts ==
    {[conversation_id |-> c, message_id |-> m] : c \in {"c1", "c2"}, m \in {"m1"}}

InitMessage ==
    /\ m_pc = "call"
    /\ m_in \in {[context |-> c, message_type |-> t, content |-> v] :
                    c \in Contexts,
                    t \in {"suggestion", "evaluation", "continue", "tdd_request"},
                    v \in Contents}
    /\ m_smart \in BOOLEAN
    /\ m_out = NoDict
    /\ PipelineOff /\ QualityOff /\ ExecOff /\ RelevanceOff /\ SuggestionOff /\ CleanupOff /\ QueueOff

\* lines 108-109: context and message_type
MessageFields ==
    /\ m_pc = "call"
    /\ m_out' = [context |-> m_in.context, message_type |-> m_in.message_type]
    /\ m_pc' = "content"
    /\ UNCHANGED <<m_in, m_smart>>
    /\ UNCHANGED rest_message

\* lines 110-112, validated from left to right
ContentLeftToRight ==
    /\ m_pc = "content"
    /\ ~m_smart
    /\ m_out' = With(m_out, "content", LeftToRight(m_in.content))
    /\ m_pc' = "done"
    /\ UNCHANGED <<m_in, m_smart>>
    /\ UNCHANGED rest_message

\* lines 110-112, validated in smart mode
ContentSmart ==
    /\ m_pc = "content"
    /\ m_smart
    /\ \E content \in Smart(m_in.content) : m_out' = With(m_out, "content", content)
    /\ m_pc' = "done"
    /\ UNCHANGED <<m_in, m_smart>>
    /\ UNCHANGED rest_message

NextMessage == MessageFields \/ ContentLeftToRight \/ ContentSmart

SpecMessage == InitMessage /\ [][NextMessage]_vars

---------------------------------------------------------------------------
(***************************************************************************)
(* handle_suggestion from the call of the agent to the response            *)
(* (mcp_server.py 286-386) and evaluate_proposed_changes                   *)
(* (monitor_agent.py 410-464).  Scores are in tenths, as for the combiner. *)
(***************************************************************************)
\* monitor_agent.py 439-452: the decision, with the default
\* verification_threshold of 0.8
AcceptChanges(analysis) ==
    /\ Get(analysis, "hallucination_risk", 10) < 3
    /\ Get(analysis, "recursive_risk", 10) < 3
    /\ Get(analysis, "alignment_score", 0) >= 8

\* monitor_agent.py 428-464: the returned pair; a failed analysis is returned
\* as the evaluation
evaluate_proposed_changes(analysis) ==
    IF ~Get(analysis, "success", FALSE)
    THEN [accept |-> FALSE, evaluation |-> analysis]
    ELSE [accept |-> AcceptChanges(analysis),
          evaluation |-> [accept_changes |-> AcceptChanges(analysis),
                          analysis |-> analysis,
                          reason |-> "Automated evaluation based on analysis results"]]

\* what capture_and_analyze_output returns: the analysis of the LLM, or a
\* failure
Analyses ==
    {[success |-> FALSE, error |-> "x"]}
        \cup {[success |-> TRUE, hallucination_risk |-> h, recursive_risk |-> r,
               alignment_score |-> a, issues_detected |-> <<"a">>,
               recommendations |-> <<"rl">>] :
                 h \in {1, 8}, r \in {1, 8}, a \in {5, 9}}

\* mcp_server.py 294-299: accept is None
NeutralTddEvaluation ==
    [tdd_score |-> 5, issues_detected |-> <<>>, recommendations |-> <<>>]

\* what evaluate_tdd_results returns for a list that is not empty: accept is
\* a boolean
TddEvaluationResults ==
    {t \in TddEvaluations :
        /\ DOMAIN t = {"tdd_score", "issues_detected", "recommendations",
                       "accept", "test_quality", "task_relevance"}
        /\ t.tdd_score \in {3, 6, 9}}

\* lines 357-359: the except branch ends the TDD stage and the function goes on
AfterTddRaise_propagates == [pc |-> "done", exc |-> TRUE]

AfterTddRaise == [pc |-> "combine", exc |-> FALSE]

\* lines 365-380: the response
EvaluationResponse(final_accept, final_evaluation, results, run_tdd) ==
    LET analysis == Get(final_evaluation, "analysis", <<>>)
    IN  [message_type |-> "evaluation",
         content |->
            [accept |-> final_accept,
             hallucination_risk |-> Get(analysis, "hallucination_risk", 5),
             recursive_risk |-> Get(analysis, "recursive_risk", 5),
             alignment_score |-> Get(analysis, "alignment_score", 5),
             tdd_score |-> Get(analysis, "tdd_score", 5),
             issues_detected |-> Get(analysis, "issues_detected", <<>>),
             recommendations |-> Get(analysis, "recommendations", <<>>),
             tdd_test_results |-> IF run_tdd THEN results ELSE <<>>]]

SuggestionIterations == {0, 1, 2}

InitSuggestion ==
    /\ h_pc = "call"
    /\ h_in \in {[run_tdd |-> r, max_iterations |-> n] :
                    r \in BOOLEAN, n \in SuggestionIterations}
    /\ h_loc = NoDict
    /\ h_ws \in {[open |-> o, sent |-> <<>>] : o \in BOOLEAN}
    /\ h_exc = FALSE
    /\ PipelineOff /\ QualityOff /\ ExecOff /\ RelevanceOff /\ MessageOff /\ CleanupOff /\ QueueOff

\* lines 287-299: the evaluation of the agent, then the neutral TDD
\* evaluation and the empty list of results
SuggestionLlm ==
    /\ h_pc = "call"
    /\ \E analysis \in Analyses :
           LET returned == evaluate_proposed_changes(analysis)
           IN  h_loc' = [accept |-> returned.accept,
                         llm_evaluation |-> returned.evaluation,
                         tdd_evaluation |-> NeutralTddEvaluation,
                         tdd_test_results |-> <<>>,
                         iteration |-> 0,
                         tdd_raised |-> FALSE]
    /\ h_pc' = IF h_in.run_tdd THEN "tdd" ELSE "combine"
    /\ UNCHANGED <<h_in, h_ws, h_exc>>
    /\ UNCHANGED rest_suggestion

\* line 287: the call of the agent raises; it is in no try block
SuggestionLlmRaises ==
    /\ h_pc = "call"
    /\ h_exc' = TRUE
    /\ h_pc' = "done"
    /\ UNCHANGED <<h_in, h_loc, h_ws>>
    /\ UNCHANGED rest_suggestion

\* lines 309-350: one iteration, whose request yields a response or none
SuggestionIteration ==
    /\ h_pc = "tdd"
    /\ h_loc.iteration < h_in.max_iterations
    /\ \E tdd_response \in {<<>>, <<[test_code |-> "x"]>>, <<[test_code |-> ""]>>} :
           h_loc' = [h_loc EXCEPT !.iteration = @ + 1,
                                  !.tdd_test_results = @ \o tdd_response]
    /\ UNCHANGED <<h_in, h_pc, h_ws, h_exc>>
    /\ UNCHANGED rest_suggestion

\* lines 352-355: evaluate_tdd_results returns, or there is no result to
\* evaluate
SuggestionEvaluate ==
    /\ h_pc = "tdd"
    /\ h_loc.iteration >= h_in.max_iterations
    /\ IF h_loc.tdd_test_results # <<>>
       THEN \E tdd_evaluation \in TddEvaluationResults :
                h_loc' = [h_loc EXCEPT !.tdd_evaluation = tdd_evaluation]
       ELSE UNCHANGED h_loc
    /\ h_pc' = "combine"
    /\ UNCHANGED <<h_in, h_ws, h_exc>>
    /\ UNCHANGED rest_suggestion

\* lines 303-359: a step of the TDD stage raises, in the loop or in
\* evaluate_tdd_results (test execution and quality scoring are its callees)
SuggestionTddRaises ==
    /\ h_pc = "tdd"
    /\ h_loc.iteration < h_in.max_iterations \/ h_loc.tdd_test_results # <<>>
    /\ h_loc' = [h_loc EXCEPT !.tdd_raised = TRUE]
    /\ h_pc' = AfterTddRaise.pc
    /\ h_exc' = AfterTddRaise.exc
    /\ UNCHANGED <<h_in, h_ws>>
    /\ UNCHANGED rest_suggestion

\* lines 362-383: the combiner and the response
SuggestionCombine ==
    /\ h_pc = "combine"
    /\ LET combined == combine_evaluation_results(h_loc.tdd_evaluation, h_loc.llm_evaluation)
       IN  h_loc' = With(With(With(h_loc,
                "combined_tdd_evaluation", h_loc.tdd_evaluation),
                "final_accept", combined.final_accept),
                "response", EvaluationResponse(combined.final_accept, combined.combined,
                                               h_loc.tdd_test_results, h_in.run_tdd))
    /\ h_pc' = "send"
    /\ UNCHANGED <<h_in, h_ws, h_exc>>
    /\ UNCHANGED rest_suggestion

\* line 386: send_text, which raises on a closed connection
SuggestionSend ==
    /\ h_pc = "send"
    /\ h_ws' = [h_ws EXCEPT !.sent = Append(@, h_loc.response)]
    /\ h_exc' = ~h_ws.open
    /\ h_pc' = "done"
    /\ UNCHANGED <<h_in, h_loc>>
    /\ UNCHANGED rest_suggestion

NextSuggestion ==
    \/ SuggestionLlm
    \/ SuggestionLlmRaises
    \/ SuggestionIteration
    \/ SuggestionEvaluate
    \/ SuggestionTddRaises
    \/ SuggestionCombine
    \/ SuggestionSend

SpecSuggestion == InitSuggestion /\ [][NextSuggestion]_vars

---------------------------------------------------------------------------
(***************************************************************************)
(* cleanup_generated_tests (tdd_helpers.py 266-279) on the text it is      *)
(* given.  The text is a sequence of tokens: the code fence markers, the   *)
(* words the function looks for, a word it does not look for, and the      *)
(* newline.  A substring test of the code is a membership test of the      *)
(* token.  handle_tdd_request above keeps of this function only whether    *)
(* the result is empty.                                                    *)
(***************************************************************************)

\* bound of the inputs: the test code has at most MaxTokens tokens
MaxTokens == 3

\* line 269: the markers replace() removes
\* ("fence" is the three backquotes)
FenceMarkers == {"fence python", "fence javascript", "fence js", "fence"}

CodeTokens ==
    {"fence python", "fence", "import ", "unittest", "pytest", "assert", "\n"}

\* line 269: the four replace calls
RemoveFences(test_code) ==
    SelectSeq(test_code, LAMBDA token : token \notin FenceMarkers)

\* the operator in
InCode(test_code, token) == \E k \in 1..Len(test_code) : test_code[k] = token

\* line 279: str.strip()
RECURSIVE Strip(_)
Strip(test_code) ==
    IF test_code = <<>> THEN <<>>
    ELSE IF Head(test_code) = "\n" THEN Strip(Tail(test_code))
    ELSE IF test_code[Len(test_code)] = "\n"
         THEN Strip(SubSeq(test_code, 1, Len(test_code) - 1))
    ELSE test_code

\* line 272: str.lower() of the languages below
LowerLanguage(language) == IF language = "Python" THEN "python" ELSE language

\* lines 266-279; language.lower() raises AttributeError for None
cleanup_test_code(test_code, language) ==
    IF language = "None" THEN Raised
    ELSE LET code == RemoveFences(test_code)                   \* line 269
             with_import ==
               IF LowerLanguage(language) = "python"
                    /\ ~InCode(code, "import ")                \* line 272
               THEN IF InCode(code, "unittest")                \* lines 273-274
                    THEN <<"import ", "unittest", "\n", "\n">> \o code
                    ELSE IF InCode(code, "pytest")             \* line 275
                              /\ ~InCode(code, "pytest")
                         THEN <<"import ", "pytest", "\n", "\n">> \o code
                         ELSE code
               ELSE code
         IN  [value |-> Strip(with_import)]                    \* line 279

CleanupLanguages == {"python", "Python", "javascript", "None"}

InitCleanup ==
    /\ g_pc = "call"
    /\ g_code \in SeqsUpTo(CodeTokens, MaxTokens)
    /\ g_language \in CleanupLanguages
    /\ g_out = NoDict
    /\ PipelineOff /\ QualityOff /\ ExecOff /\ RelevanceOff /\ MessageOff
    /\ SuggestionOff /\ QueueOff

CleanupCall ==
    /\ g_pc = "call"
    /\ g_out' = cleanup_test_code(g_code, g_language)
    /\ g_pc' = "done"
    /\ UNCHANGED <<g_code, g_language>>
    /\ UNCHANGED rest_cleanup

NextCleanup == CleanupCall

SpecCleanup == InitCleanup /\ [][NextCleanup]_vars

---------------------------------------------------------------------------
(***************************************************************************)
(* The request queue of one client (mcp_server.py 155-220):                *)
(* websocket_endpoint appends each text it receives and creates a          *)
(* process_client_queue task when client_processing_flags[client_id] is    *)
(* not set; the task sets the flag, takes the messages one by one and      *)
(* clears the flag.  The coroutines run on one event loop: a step of the   *)
(* model is what a coroutine does between two suspensions.                 *)
(* websocket.receive_text() returns without suspending when a frame is     *)
(* already buffered, so the endpoint may receive again before a task it    *)
(* created has started.  A message is the number of its arrival.           *)
(***************************************************************************)

\* bound of the inputs: the client sends at most MaxMessages messages
MaxMessages == 3

Messages == 1..MaxMessages

\* what the text of a message is: a message whose handler is awaited
\* (lines 225-230), a JSON value MCPMessage(**message_data) raises for
\* inside process_single_message (lines 224, 243-244), or a text
\* json.loads raises for (lines 211, 218-219)
MessageKinds == {"handled", "invalid", "malformed"}

\* the flag is left set
FlagAfterLoop_kept == TRUE

\* line 220
FlagAfterLoop == FALSE

\* lines 205-219: the while loop up to the first handler that suspends, or
\* to the end of the queue (msg is 0 then)
RECURSIVE RunLoop(_, _, _, _)
RunLoop(kind, queue, dequeued, passed) ==
    IF queue = <<>>                                            \* line 205
    THEN [queue |-> queue, dequeued |-> dequeued, passed |-> passed, msg |-> 0]
    ELSE LET m == Head(queue)                                  \* line 206
         IN  IF kind[m] = "handled"
             THEN [queue |-> Tail(queue), dequeued |-> Append(dequeued, m),
                   passed |-> Append(passed, m), msg |-> m]
             ELSE RunLoop(kind, Tail(queue), Append(dequeued, m),
                          IF kind[m] = "invalid"
                          THEN Append(passed, m) ELSE passed)

\* the task t after the loop ran from the top
AfterRunLoop(t, outcome) ==
    LET r == RunLoop(w_kind, client_request_queue, w_dequeued, w_passed)
    IN  /\ client_request_queue' = r.queue
        /\ w_dequeued' = r.dequeued
        /\ w_passed' = r.passed
        /\ client_processing_flag' = IF r.msg = 0 THEN FlagAfterLoop ELSE TRUE
        /\ queue_tasks' = [queue_tasks EXCEPT ![t] =
                [pc |-> IF r.msg = 0 THEN "done" ELSE "handling",
                 msg |-> r.msg,
                 last |-> IF r.msg = 0 THEN "none" ELSE outcome]]

InitQueue ==
    /\ client_request_queue = <<>>
    /\ client_processing_flag = FALSE
    /\ queue_tasks = <<>>
    /\ w_kind = <<>>
    /\ w_dequeued = <<>>
    /\ w_passed = <<>>
    /\ PipelineOff /\ QualityOff /\ ExecOff /\ RelevanceOff /\ MessageOff
    /\ SuggestionOff /\ CleanupOff

\* lines 179-185: a text is received, appended, and a task is created when
\* the flag is not set
Receive ==
    /\ Len(w_kind) < MaxMessages
    /\ \E kind \in MessageKinds : w_kind' = Append(w_kind, kind)
    /\ client_request_queue' = Append(client_request_queue, Len(w_kind) + 1)
    /\ queue_tasks' =
          IF ~client_processing_flag                           \* line 184
          THEN Append(queue_tasks, [pc |-> "scheduled", msg |-> 0, last |-> "none"])
          ELSE queue_tasks
    /\ UNCHANGED <<client_processing_flag, w_dequeued, w_passed>>
    /\ UNCHANGED rest_queue

\* lines 202-220: a created task starts; line 203 sets the flag
TaskStarts(t) ==
    /\ queue_tasks[t].pc = "scheduled"
    /\ AfterRunLoop(t, "none")
    /\ UNCHANGED w_kind
    /\ UNCHANGED rest_queue

\* lines 222-244 and 205-220: the handler process_single_message awaits
\* returns or raises (line 243 catches it), and the loop goes on
HandlerEnds(t) ==
    /\ queue_tasks[t].pc = "handling"
    /\ \E outcome \in {"returned", "raised"} : AfterRunLoop(t, outcome)
    /\ UNCHANGED w_kind
    /\ UNCHANGED rest_queue

Start == \E t \in DOMAIN queue_tasks : TaskStarts(t)
Finish == \E t \in DOMAIN queue_tasks : HandlerEnds(t)

NextQueue == Receive \/ Start \/ Finish

SpecQueue == InitQueue /\ [][NextQueue]_vars

\* the event loop runs the tasks it has scheduled, and the handler calls
\* terminate: while a task is scheduled some task starts, and while a
\* handler is awaited some handler ends
QueueFairness == WF_vars(Start) /\ WF_vars(Finish)

FairSpecQueue == SpecQueue /\ QueueFairness

---------------------------------------------------------------------------
(***************************************************************************)
(* Claims about combine_evaluation_results, under SpecCombine.             *)
(***************************************************************************)
c_hallucination_risk == Get(c_llm.analysis, "hallucination_risk", 5)
c_recursive_risk == Get(c_llm.analysis, "recursive_risk", 5)
c_high_risk == c_hallucination_risk > 7 \/ c_recursive_risk > 7
c_tdd_ran == "accept" \in DOMAIN c_tdd

\* C1 as stated: whenever hallucination_risk > 0.7 or recursive_risk > 0.7,
\* the combiner returns final_accept = False, whatever the other inputs are
\* (the TDD accept flag included).
C1_VetoWhateverInputs ==
    (c_pc = "done" /\ c_high_risk) => (c_out.final_accept = FALSE)

\* C1 amended: when the TDD accept flag is not None and hallucination_risk
\* > 0.7 or recursive_risk > 0.7, the combiner returns final_accept = False
\* whatever tdd_score, alignment_score, test_quality, task_relevance and the
\* two accept flags are.
C1_VetoWhenTddRan ==
    (c_pc = "done" /\ c_tdd_ran /\ c_high_risk) => (c_out.final_accept = FALSE)

C1_Witness ==
    /\ c_pc = "done"
    /\ c_tdd_ran /\ c_tdd.accept = TRUE
    /\ c_tdd.tdd_score = 10 /\ c_llm.analysis.alignment_score = 10
    /\ c_hallucination_risk = 8 /\ c_recursive_risk = 5
    /\ c_out.final_accept = FALSE

\* C2: when the TDD accept flag is None, final_accept is exactly the accept
\* flag of the LLM evaluation, and so is the combined result's accept field;
\* the scores and the risks play no part.
C2_Passthrough ==
    (c_pc = "done" /\ ~c_tdd_ran /\ "accept" \in DOMAIN c_llm) =>
        /\ c_out.final_accept = c_llm.accept
        /\ c_out.combined.accept = c_llm.accept

C2_Witness ==
    /\ c_pc = "done"
    /\ ~c_tdd_ran
    /\ "accept" \in DOMAIN c_llm /\ c_llm.accept = TRUE
    /\ c_hallucination_risk = 8
    /\ c_tdd.tdd_score = 0 /\ c_llm.analysis.alignment_score = 0
    /\ c_out.final_accept = TRUE /\ c_out.combined.accept = TRUE

\* C3: when the TDD accept flag is not None and neither risk exceeds 0.7,
\* final_accept = (weighted >= 0.6) with weighted = 0.7*tdd_score +
\* 0.3*alignment_score, the weights being 0.8 and 0.2 exactly when
\* test_quality > 0.7 and task_relevance > 0.7 both hold.
C3_WeightedDecision ==
    (c_pc = "done" /\ c_tdd_ran /\ ~c_high_risk) =>
        LET boosted == /\ Get(c_tdd, "test_quality", 5) > 7
                       /\ Get(c_tdd, "task_relevance", 7) > 7
            t == c_tdd.tdd_score
            a == c_llm.analysis.alignment_score
        IN  c_out.final_accept =
                IF boosted THEN 8 * t + 2 * a >= 60 ELSE 7 * t + 3 * a >= 60

\* boosted weights accept (0.8*0.7 + 0.2*0.3 = 0.62) what the plain weights
\* reject (0.7*0.7 + 0.3*0.3 = 0.58)
C3_Witness ==
    /\ c_pc = "done" /\ c_tdd_ran /\ ~c_high_risk
    /\ Get(c_tdd, "test_quality", 5) = 8 /\ Get(c_tdd, "task_relevance", 7) = 8
    /\ c_tdd.tdd_score = 7 /\ c_llm.analysis.alignment_score = 3
    /\ c_out.final_accept = TRUE

\* C22 as stated: in the combined result issues_detected is the TDD
\* evaluation's issue list followed by the LLM analysis's issue list, and
\* recommendations is the TDD list followed by the LLM list, every element
\* kept in its relative order and nothing deduplicated.
C22_TddListFirst ==
    (c_pc = "done") =>
        /\ c_out.combined.analysis.issues_detected =
                c_tdd.issues_detected \o c_llm.analysis.issues_detected
        /\ c_out.combined.analysis.recommendations =
                c_tdd.recommendations \o c_llm.analysis.recommendations

\* C22 amended: issues_detected is the LLM analysis's issue list followed by
\* the TDD evaluation's issue list, and recommendations is the LLM list
\* followed by the TDD list, every element kept in its relative order and
\* nothing deduplicated.
C22_LlmListFirst ==
    (c_pc = "done") =>
        /\ c_out.combined.analysis.issues_detected =
                c_llm.analysis.issues_detected \o c_tdd.issues_detected
        /\ c_out.combined.analysis.recommendations =
                c_llm.analysis.recommendations \o c_tdd.recommendations

\* "b" is in both lists, and twice in the LLM list: all three are kept
C22_Witness ==
    /\ c_pc = "done"
    /\ c_llm.analysis.issues_detected = <<"b", "a", "b">>
    /\ c_tdd.issues_detected = <<"t", "b">>
    /\ c_out.combined.analysis.issues_detected = <<"b", "a", "b", "t", "b">>
    /\ c_out.combined.analysis.recommendations = <<"rl", "rt">>

\* the call whose TDD evaluation ran, whose risks are both at most 0.7 and
\* whose test_quality and task_relevance are not both above 0.7
c_plain_weights ==
    /\ c_pc = "done" /\ c_tdd_ran /\ ~c_high_risk
    /\ ~(Get(c_tdd, "test_quality", 5) > 7 /\ Get(c_tdd, "task_relevance", 7) > 7)

\* the decision for the same call with test_quality q and task_relevance r
c_accept_with(q, r) ==
    combine_evaluation_results(
        With(With(c_tdd, "test_quality", q), "task_relevance", r),
        c_llm).final_accept

\* C29 as stated: with a non-None TDD accept flag and both risks <= 0.7,
\* for fixed tdd_score and alignment_score, changing test_quality and
\* task_relevance from values not both above 0.7 to values both above 0.7
\* never changes final_accept from True to False.
C29_BoostNeverRejects ==
    (c_plain_weights /\ c_out.final_accept) =>
        \A q, r \in 8..10 : c_accept_with(q, r)

\* C29 amended: the same, for the calls whose tdd_score is at least the
\* alignment_score; the boost moves weight from the alignment score to the
\* TDD score, so it lowers the weighted score whenever alignment_score is
\* the greater of the two.
C29_BoostNeverRejectsWhenTddLeads ==
    (/\ c_plain_weights /\ c_out.final_accept
     /\ c_tdd.tdd_score >= c_llm.analysis.alignment_score) =>
        \A q, r \in 8..10 : c_accept_with(q, r)

\* 0.7*0.6 + 0.3*0.6 = 0.60 is accepted and stays accepted when boosted
C29_Witness ==
    /\ c_plain_weights /\ c_out.final_accept
    /\ c_tdd.tdd_score = 6 /\ c_llm.analysis.alignment_score = 6
    /\ Get(c_tdd, "test_quality", 5) = 7
    /\ c_accept_with(8, 8)

---------------------------------------------------------------------------
(***************************************************************************)
(* Claims about evaluate_tdd_results, under SpecEval.                      *)
(***************************************************************************)

\* the result of a call with a non-empty list carries a boolean accept
e_boolean_accept == "accept" \in DOMAIN e_out /\ e_out.accept \in BOOLEAN

\* C9: evaluate_tdd_results called with an empty list returns tdd_score
\* 0.5, accept None and issues_detected equal to ["No TDD tests ran"]; accept
\* is None only then, and is a boolean for every non-empty list.
C9_NeutralOnlyWhenEmpty ==
    e_pc = "done" =>
        IF e_len = 0
        THEN /\ e_out.tdd_score = 500
             /\ "accept" \notin DOMAIN e_out
             /\ e_out.issues_detected = <<"No TDD tests ran">>
        ELSE e_boolean_accept

\* the score the claim C10 states, in thousandths times 2 * total: the
\* fraction passed/total is capped at 0.8, a tenth is taken off for each
\* issue up to 0.5, and the difference is floored at 0.1
e_claimed_score ==
    LET total == e_acc.total_tests
        passed == e_acc.passed_tests
        issue_count == Len(e_acc.issues_detected)
        capped == IF 1000 * passed <= 800 * total
                  THEN 1000 * passed ELSE 800 * total
        penalty == (IF issue_count >= 5 THEN 500 ELSE 100 * issue_count) * total
        test_result_score == IF capped - penalty >= 100 * total
                             THEN capped - penalty ELSE 100 * total
    IN  test_result_score
          + 2 * total * (30 * e_out.task_relevance + 20 * e_out.test_quality)

\* C10: for a non-empty list whose summed test count is > 0,
\* evaluate_tdd_results returns tdd_score = 0.5 * test_result_score
\* + 0.3 * task_relevance + 0.2 * quality_score with test_result_score =
\* max(0.1, min(0.8, passed/total) - min(0.5, 0.1 * issue_count)), returns
\* accept == (tdd_score >= 0.6), and tdd_score lies in [0, 1].
C10_ScoreFormula ==
    (e_pc = "done" /\ e_len > 0 /\ e_acc.total_tests > 0) =>
        /\ "tdd_score" \in DOMAIN e_out
        /\ e_out.tdd_score = e_claimed_score \div (2 * e_acc.total_tests)
        /\ e_out.accept = (e_claimed_score >= 1200 * e_acc.total_tests)
        /\ e_out.tdd_score \in 0..1000

\* the element is a failed generation: empty test_code and an "error"
e_generation_failed(k) == ~e_tests[k].test_code /\ e_tests[k].error

\* what a list of iterations whose test code holds no test, no assert and
\* no indicator is scored as
e_scored_as_no_tests ==
    /\ e_out.tdd_score = 500
    /\ e_out.accept = FALSE
    /\ e_out.issues_detected = <<>>
    /\ e_out.metrics.test_count = 0

\* C21: when an iteration result has empty test_code and a populated error,
\* evaluate_tdd_results records the failure in its output (issues_detected
\* or the accept decision reflects it); in particular a list in which every
\* generation failed is not scored like a list of iterations that had no
\* tests.
C21_GenerationFailureRecorded ==
    (/\ e_pc = "done" /\ e_len > 0 /\ e_out # Raised
     /\ \A k \in 1..e_len : e_generation_failed(k)) =>
        ~e_scored_as_no_tests

\* C28: in the result of evaluate_tdd_results, metrics.passed_tests <=
\* metrics.test_count for every list of iterations, whether the counts come
\* from an execution result or from the static count of test and assert
\* patterns.
C28_PassedAtMostCount ==
    (e_pc = "done" /\ "metrics" \in DOMAIN e_out) =>
        e_out.metrics.passed_tests <= e_out.metrics.test_count

---------------------------------------------------------------------------
(***************************************************************************)
(* Claims about the TDD stage of handle_suggestion, under SpecLoop.        *)
(***************************************************************************)

\* the iteration the k-th entry reports: k, or 5 for an entry after the
\* fifth when the request's content became an MCPTDDRequest, which has no
\* max_iterations, so that handle_tdd_request clamped the iteration to the
\* default of 5
s_reported(k) ==
    IF s_coerces /\ s_language # "None" /\ k > 5 THEN 5 ELSE k

---------------------------------------------------------------------------
(***************************************************************************)
(* Claims about handle_tdd_request, under SpecTdd.                         *)
(***************************************************************************)

t_generation_failed ==
    /\ t_pc = "done"
    /\ t_loc.llm_outcome \in {"success_false", "empty_response", "raises"}

\* C5: when the completion call returns success = false, returns an empty
\* response or raises, the response is still produced and given to the
\* websocket, with empty test_code and a non-empty error text, the same in
\* the three cases but for the error text, and no exception leaves
\* handle_tdd_request.
C5_FailedGenerationStillAnswered ==
    /\ ~t_exc
    /\ t_generation_failed =>
          /\ Len(t_ws.sent) = 1
          /\ t_ws.open => t_ws.responses = t_ws.sent
          /\ LET c == t_ws.sent[1]
             IN  /\ c.test_code = ""
                 /\ "error" \in DOMAIN c /\ c.error # ""
                 /\ [k \in DOMAIN c \ {"error"} |-> c[k]]
                      = [test_code |-> "", language |-> t_loc.language,
                         iteration |-> t_loc.iteration,
                         max_iterations |-> t_loc.max_iterations]

C5_Witness ==
    /\ t_generation_failed
    /\ t_loc.llm_outcome = "raises"
    /\ t_ws.open
    /\ Len(t_ws.responses) = 1
    /\ t_ws.responses[1].error = "Unexpected error: raised"

\* C24: the iteration number handle_tdd_request builds the prompt with and
\* reports in the response never exceeds the max_iterations used for the
\* same prompt and response, whatever the content and the metadata of the
\* request are, max_iterations given through the metadata included.
C24_IterationWithinMax ==
    /\ (t_pc \in {"generate", "respond", "done"}) =>
            t_loc.iteration <= t_loc.max_iterations
    /\ (t_pc = "done") =>
            \A k \in 1..Len(t_ws.sent) :
                t_ws.sent[k].iteration <= t_ws.sent[k].max_iterations

\* the prompt was built for an iteration within 1..max_iterations
t_prompted ==
    /\ t_pc \in {"generate", "respond", "done"}
    /\ t_loc.iteration \in 1..t_loc.max_iterations

\* the block the progress p = iteration/max_iterations stands for
t_block_of_progress ==
    IF 4 * t_loc.iteration < t_loc.max_iterations THEN "basic"
    ELSE IF 2 * t_loc.iteration < t_loc.max_iterations THEN "extended"
    ELSE IF 4 * t_loc.iteration < 3 * t_loc.max_iterations THEN "error_handling"
    ELSE "performance"

\* the hand-authored block k
t_block(k) ==
    CASE k = 1 -> "basic" [] k = 2 -> "extended" [] k = 3 -> "error_handling"
      [] k = 4 -> "performance" [] k = 5 -> "comprehensive"

\* C23 as stated: for 1 <= iteration <= max_iterations, when max_iterations
\* is not 5 the block is the comprehensive review exactly when iteration =
\* max_iterations and otherwise follows p = iteration/max_iterations (basic
\* if p < 0.25, extended if p < 0.5, error handling if p < 0.75,
\* performance otherwise); when max_iterations is 5, iteration k gets
\* block k.
C23_BlockFollowsProgress ==
    t_prompted =>
        t_loc.prompt =
            IF t_loc.max_iterations # 5
            THEN IF t_loc.iteration = t_loc.max_iterations
                 THEN "comprehensive" ELSE t_block_of_progress
            ELSE t_block(t_loc.iteration)

\* C23 amended: the same, except that with max_iterations other than 5 the
\* first iteration gets the basic block whenever it is not the last one,
\* whatever its progress is.
C23_BlockFollowsProgressAfterFirst ==
    t_prompted =>
        t_loc.prompt =
            IF t_loc.max_iterations # 5
            THEN IF t_loc.iteration = t_loc.max_iterations THEN "comprehensive"
                 ELSE IF t_loc.iteration = 1 THEN "basic"
                 ELSE t_block_of_progress
            ELSE t_block(t_loc.iteration)

\* iteration 1 of 3 has p = 1/3, the progress of the extended block, and
\* gets the basic block
C23_Witness ==
    /\ t_prompted /\ t_pc = "done"
    /\ t_loc.iteration = 1 /\ t_loc.max_iterations = 3
    /\ t_loc.prompt = "basic"

---------------------------------------------------------------------------
(***************************************************************************)
(* Claims about the calls of agent.send_prompt_to_llm, under Spec and      *)
(* FairSpec.                                                               *)
(***************************************************************************)

\* the tasks whose call made by handle_tdd_request is executing
k_generating == { t \in Tasks : tasks[t].call = "running" }

\* the calls of agent.send_prompt_to_llm in flight: those in the executor
\* and the one the event loop's thread is in
k_in_flight ==
    Cardinality(k_generating) + (IF loop_busy # NoTask THEN 1 ELSE 0)

\* C6: at most one test-generation call made by handle_tdd_request is
\* executing at any time: the call runs only while llm_request_lock is held,
\* and the lock has one holder.
C6_OneGenerationCall ==
    /\ Cardinality(k_generating) <= 1
    /\ \A t \in k_generating : lock_holder = t /\ tasks[t].pc = "tdd_call"

\* two tasks wait while the call of the third executes
C6_Witness ==
    /\ Cardinality(k_generating) = 1
    /\ Len(lock_waiters) = 2
    /\ lock_holder \in k_generating

\* C7: at most one call of agent.send_prompt_to_llm is in flight at any
\* time, counting test generation in handle_tdd_request, the evaluation
\* started by handle_suggestion and handle_continue.
C7_OneCallInFlight == k_in_flight <= 1

k_waiting(t) == tasks[t].pc = "tdd_wait"

\* C8: the callers of handle_tdd_request that wait for llm_request_lock get
\* it in the order in which they began to wait; the lock is released when
\* the call in flight completes, whether it returned, failed or raised; so
\* every waiting caller makes its call in the end.
C8_FifoAndProgress ==
    /\ [][\A t \in Tasks :
            /\ (k_waiting(t) /\ ~k_waiting(t)')
                  => (wait_order[1] = t /\ lock_holder' = t
                        /\ tasks[t].call' = "running")
            /\ (tasks[t].pc = "tdd_call" /\ tasks[t].call \in CallOutcomes
                  /\ tasks[t]' # tasks[t])
                  => (lock_holder' # t \/ tasks[t].call' = "running")]_vars
    /\ \A t \in Tasks : k_waiting(t) ~> (tasks[t].call = "running")
    /\ \A t \in Tasks :
          (tasks[t].pc = "tdd_call" /\ tasks[t].call \in CallOutcomes)
              ~> (tasks[t].pc # "tdd_call" \/ tasks[t].call = "running")

\* a call has completed and the lock was released while two tasks wait: the
\* future of the first one is set
C8_Witness ==
    /\ lock_holder = NoTask /\ lock_woken
    /\ Len(lock_waiters) = 2 /\ wait_order = lock_waiters

---------------------------------------------------------------------------
(***************************************************************************)
(* Claims about evaluate_test_quality, under SpecQuality.                  *)
(***************************************************************************)
q_returned == q_pc = "done" /\ "overall_quality" \in DOMAIN q_out

q_sub_scores ==
    <<q_out.completeness_score, q_out.variety_score, q_out.edge_case_score,
      q_out.normalized_assertion_density, q_out.readability_score,
      q_out.test_isolation_score, q_out.task_alignment_score>>

\* C13: for every test code evaluate_test_quality returns a result whose
\* overall_quality lies in [0,1], is the sum of the seven sub-scores
\* weighted by 0.20, 0.15, 0.20, 0.15, 0.10, 0.10, 0.10, and is 0 exactly
\* when the stripped test code is shorter than 10 characters.
C13_OverallQuality ==
    q_pc = "done" =>
        /\ q_returned
        /\ q_out.overall_quality \in 0..1000
        /\ (q_out.overall_quality = 0) <=> q_code.minimal
        /\ ~q_code.minimal =>
               q_out.overall_quality = WeightedSum(q_sub_scores, QualityWeights) \div 100

\* the fraction of the lines whose leading-space count is a multiple of the
\* most common one (0 is the only multiple of 0), in thousandths
q_claimed_consistency ==
    LET mode_indent == ModeIndent(q_code.indents)
        consistent_lines ==
            {i \in 1..Len(q_code.indents) :
                IF mode_indent = 0 THEN q_code.indents[i] = 0
                ELSE q_code.indents[i] % mode_indent = 0}
    IN  (Cardinality(consistent_lines) * 1000) \div Len(q_code.indents)

\* C14: for every test code of stripped length 10 or more, whatever the
\* indentation of its lines, evaluate_test_quality returns a metrics result
\* and does not raise, and the indentation consistency is the fraction of
\* the non-blank lines whose leading-space count is a multiple of the most
\* common one.
C14_NoRaiseOnAnyIndentation ==
    (q_pc = "done" /\ ~q_code.minimal) =>
        /\ q_returned
        /\ q_loc.readability.indent_consistency = q_claimed_consistency

---------------------------------------------------------------------------
(***************************************************************************)
(* Claims about the execution of tests, under SpecExec.                    *)
(***************************************************************************)
x_simulated == x_pc = "done" /\ x_in.run = "no_command"

\* C11: every TestExecutionResult with total_tests > 0 that the execution
\* of tests returns, parsed from the output of a runner by a parser of a
\* language or by the common patterns, or simulated, has
\* passed_tests + failed_tests = total_tests and success = (failed_tests = 0).
C11_CountsAddUp ==
    (x_pc = "done" /\ x_out.total_tests > 0) =>
        /\ x_out.passed_tests + x_out.failed_tests = x_out.total_tests
        /\ x_out.success = (x_out.failed_tests = 0)

\* C12: simulate_test_execution never returns total_tests = 0 for a
\* non-empty test code, on any path, the one where scoring the quality of
\* the test code fails included.
C12_SimulationCountsAtLeastOne ==
    (x_simulated /\ Len(x_in.code.quality.indents) >= 1) =>
        x_out.total_tests >= 1

\* C19: the quality_score that enters pass_ratio in simulate_test_execution
\* is the overall quality evaluate_test_quality computed for the test code,
\* so the simulated number of passed tests is
\* floor(test_count * min(0.95, overall_quality + 0.10 * iteration)).
C19_QualityEntersPassRatio ==
    (x_simulated /\ x_out.total_tests > 0) =>
        x_out.passed_tests =
            (count_tests(x_in.code)
                * Min2(950, evaluate_test_quality(x_in.code.quality, x_in.task).overall_quality
                              + x_in.iteration * 100)) \div 1000

\* C20: when the execution raises, exceeds the timeout of 30 seconds, or no
\* command can be determined, run_language_specific_tests returns the
\* simulated result, with total_tests >= 1, and not a result without tests.
C20_FallbackIsSimulation ==
    (x_pc = "done" /\ x_in.run \in {"error", "timeout", "no_command"}) =>
        x_out.total_tests >= 1

\* the simulation took its normal path: scoring the quality did not raise
x_normal_path ==
    /\ x_simulated
    /\ "raised" \notin DOMAIN evaluate_test_quality(x_in.code.quality, x_in.task)

\* C30: every result simulate_test_execution returns from its normal path,
\* for any test count >= 1 and any iteration >= 1, has failed_tests >= 1
\* and success = False: pass_ratio is capped at 0.95, so
\* passed = floor(test_count * pass_ratio) is less than test_count.
C30_SimulationNeverAllPass ==
    x_normal_path =>
        /\ x_out.total_tests >= 1
        /\ x_out.passed_tests < x_out.total_tests
        /\ x_out.failed_tests >= 1
        /\ x_out.success = FALSE

\* iteration 5, where 0.5 + 5 * 0.1 is capped: two tests, one passes
C30_Witness ==
    /\ x_normal_path
    /\ x_in.iteration = 5
    /\ x_out = TestExecutionResult(2, 1, 1, 0, FALSE)

---------------------------------------------------------------------------
(***************************************************************************)
(* Claims about calculate_term_presence, under SpecRelevance.              *)
(***************************************************************************)
\* C17: calculate_term_presence(T, S) is 0.0 for an empty T; for a non-empty
\* T it lies in [0,1] and is 1.0 when every term of T, in whatever letter
\* case, literally appears in S.
C17_TermPresence ==
    r_pc = "done" =>
        IF r_terms = {} THEN r_out.value = 0
        ELSE /\ r_out.value \in 0..1000
             /\ (\A term \in r_terms : Contains(r_text, term)) => r_out.value = 1000

---------------------------------------------------------------------------
(***************************************************************************)
(* Claims about MCPMessage, under SpecMessage.                             *)
(***************************************************************************)
m_content_models == {"MCPSuggestion", "MCPEvaluation", "MCPContinueRequest", "MCPTDDRequest"}

\* C18: an MCPMessage constructed from a context and a content object of
\* one of the four content models keeps the ids of the context, the
\* message_type and the content: the content is an instance of the same
\* model with the same field values, under either way of validating the
\* union.
C18_ContentKept ==
    (m_pc = "done" /\ m_in.content.model \in m_content_models) =>
        /\ m_out.context = m_in.context
        /\ m_out.message_type = m_in.message_type
        /\ m_out.content = m_in.content

\* a TDD request object, validated from left to right past the three models
\* before its own, has been made the content of a message
C18_Witness ==
    /\ m_pc = "done"
    /\ ~m_smart
    /\ m_in.content.model = "MCPTDDRequest"
    /\ m_in.message_type = "tdd_request"
    /\ m_out.content.fields.iteration = 2

---------------------------------------------------------------------------
(***************************************************************************)
(* Claims about handle_suggestion, under SpecSuggestion.                   *)
(***************************************************************************)
\* handle_suggestion has ended and had reached its TDD stage (line 293)
h_past_llm == h_pc = "done" /\ h_loc # NoDict

\* C15: a suggestion whose handling reaches the TDD stage gets exactly one
\* evaluation response, whatever step of the TDD stage raises; when one
\* raises, the TDD evaluation given to the combiner is the neutral one
\* (tdd_score 0.5, accept None), and an exception leaves handle_suggestion
\* only when sending the response fails, never because of the TDD stage.
C15_TddStageContained ==
    h_past_llm =>
        /\ Len(h_ws.sent) = 1
        /\ h_ws.sent[1].message_type = "evaluation"
        /\ h_loc.tdd_raised => h_loc.combined_tdd_evaluation = NeutralTddEvaluation
        /\ h_exc => ~h_ws.open

\* the TDD stage raised after an iteration had given a result, and the
\* response was sent
C15_Witness ==
    /\ h_past_llm
    /\ h_loc.tdd_raised
    /\ Len(h_loc.tdd_test_results) = 1
    /\ Len(h_ws.sent) = 1
    /\ ~h_exc

\* C16: when the TDD evaluation is inconclusive (run_tdd false, no
\* iteration gave a result, or the TDD stage raised, so that its accept is
\* None), the accept of the evaluation response is the accept decision
\* agent.evaluate_proposed_changes returned.
C16_DefersToAgentDecision ==
    (h_past_llm /\ "accept" \notin DOMAIN h_loc.combined_tdd_evaluation) =>
        h_ws.sent[1].content.accept = h_loc.accept

---------------------------------------------------------------------------
(***************************************************************************)
(* Claims about cleanup_generated_tests, under SpecCleanup.                *)
(***************************************************************************)

\* the text holds the line "import name"
g_has_import(code, name) ==
    \E k \in 1..(Len(code) - 1) : code[k] = "import " /\ code[k + 1] = name

\* C25: cleanup_generated_tests, given Python test code that contains no
\* import statement, prepends the matching import line whenever a
\* recognized test framework name appears in the code: "import unittest"
\* when "unittest" appears and "import pytest" when "pytest" appears.
C25_ImportPrepended ==
    (/\ g_pc = "done" /\ LowerLanguage(g_language) = "python"
     /\ ~InCode(g_code, "import ")) =>
        /\ InCode(g_code, "unittest") => g_has_import(g_out.value, "unittest")
        /\ InCode(g_code, "pytest") => g_has_import(g_out.value, "pytest")

---------------------------------------------------------------------------
(***************************************************************************)
(* Claims about the request queue of a client, under SpecQueue and         *)
(* FairSpecQueue.                                                          *)
(***************************************************************************)

\* the tasks that have started and not finished
w_running == { t \in DOMAIN queue_tasks : queue_tasks[t].pc = "handling" }

w_ascending(seq) == \A a, b \in 1..Len(seq) : a < b => seq[a] < seq[b]

\* C26: for each client at most one process_client_queue task is running
\* at any time, so the client's messages are handled one at a time in the
\* order of their arrival, in every interleaving, also when a second
\* message is received after a task was created and before it has set
\* client_processing_flags.
C26_OneQueueTask ==
    /\ Cardinality(w_running) <= 1
    /\ w_ascending(w_passed)

w_in_queue(m) ==
    \E k \in 1..Len(client_request_queue) : client_request_queue[k] = m
w_was_dequeued(m) == \E k \in 1..Len(w_dequeued) : w_dequeued[k] = m
w_was_passed(m) == \E k \in 1..Len(w_passed) : w_passed[k] = m

\* the queue holds a message and no task is running or scheduled
w_stuck ==
    /\ client_request_queue # <<>>
    /\ \A t \in DOMAIN queue_tasks : queue_tasks[t].pc = "done"

=============================================================================
